---- MODULE Spec2Model ----
(***************************************************************************)
(* A model of the data engine of glance, a command-line CSV explorer:      *)
(* the CsvReader (src/src/csv_reader.cpp), the delimiter detector          *)
(* (src/src/delim.cpp) and the type inferencer                             *)
(* (src/src/type_inference.cpp).                                           *)
(*                                                                         *)
(* Bytes are one-character strings; a buffer is a sequence of bytes.  C     *)
(* offsets are kept 0-based as in the source: At(base, i) is base[i].      *)
(* A std::string_view is a record [off, len] into the backing store; the   *)
(* default-constructed view of emplace_back() is [off |-> NULL, len |-> 0].*)
(***************************************************************************)
EXTENDS Integers, Sequences, FiniteSets, TLC

VARIABLES
  \* the reader
  buf,          \* the backing store: addr[0 .. file_size_)
  headers_,     \* CsvReader::headers_
  fields_,      \* CsvReader::fields_  (flat, row-major, stride ncols_)
  ncols_,       \* CsvReader::ncols_
  parsed_rows_, \* CsvReader::parsed_rows_
  total_rows_,  \* CsvReader::total_rows_
  last_call,    \* history: the last operation called and its arguments
  \* unquote
  field_x,      \* a text to be quoted
  field_raw,    \* the raw field handed to unquote
  field_text,   \* what unquote returned
  field_pc,     \* "idle", "raw", "quoted", "unquoted_raw" or "unquoted"
  \* detect_delimiter
  sample_lines, \* the sample_lines argument
  delim_out,    \* the delimiter returned for buf
  alt,          \* a second input, for comparing two runs
  alt_out,      \* the delimiter returned for alt
  delim_pc,     \* "idle", "start", "detected" or "compared"
  \* infer_schema
  sample_size,  \* the sample_size argument
  schema,       \* the ColumnSchema list infer_schema returned
  infer_pc,     \* "idle", "start" or "inferred"
  \* parse_filter
  filter_expr,  \* the expr argument
  filter_res,   \* NoResult before the call, then the Filter returned or the exception thrown
  \* apply_filters, sort_indices, resolve_columns
  q_call,       \* history: the query called and its arguments
  q_res,        \* NoResult before the call, then what was returned or thrown
  indices,      \* the index vector handed to sort_indices by reference
  \* the life of a reader
  life_pc,      \* where the reader stands: "none", "open", "fstat", "mmap", "read_stdin", "constructed" or "thrown"
  csv_fd,       \* CsvReader::csv_fd
  file_size_,   \* CsvReader::file_size_
  addr,         \* CsvReader::addr: NULLPTR, MAP_FAILED, MAPPING or STDIN_DATA
  stdin_buf_,   \* CsvReader::stdin_buf_, as its size()
  sys_calls,    \* history: the system calls made so far that opened, closed, mapped or unmapped
  readers,      \* history: the number of readers constructed so far
  \* rebuilding a Table
  prior,        \* history: the members the last build found, NoResult before the first build
  \* the line functions
  line_call,    \* history: the function called on buf and its arguments
  line_res,     \* NoResult before the call, then what the function returned
  \* the pager
  pg_pc,        \* where run_pager stands: "idle", "top" (of the while loop), "read" (rendered, in read_key) or "exited"
  st,           \* PagerState st
  resize_flag,  \* the flag the SIGWINCH handler sets
  winsize,      \* the window size the terminal reports now
  col_widths,   \* the column widths of the display columns
  pg_args,      \* the row_indices and col_indices arguments
  pg_last       \* history: the bytes the last read_key was given and st.searching before it

readerVars == <<buf, headers_, fields_, ncols_, parsed_rows_, total_rows_, last_call>>
fieldVars == <<field_x, field_raw, field_text, field_pc>>
delimVars == <<sample_lines, delim_out, alt, alt_out, delim_pc>>
inferVars == <<sample_size, schema, infer_pc>>
queryVars == <<filter_expr, filter_res, q_call, q_res, indices>>
lifeVars == <<life_pc, csv_fd, file_size_, addr, stdin_buf_, sys_calls, readers>>
lineVars == <<line_call, line_res>>
pagerVars == <<pg_pc, st, resize_flag, winsize, col_widths, pg_args, pg_last>>
restVars == <<prior, lineVars, pagerVars>>
vars == <<readerVars, fieldVars, delimVars, inferVars, queryVars, lifeVars, restVars>>

\* ------------------------------------------------------------------ bounds

MaxLen == 5        \* longest backing store explored by the reader
MaxRows == 2       \* largest max_rows handed to parse_head

\* ------------------------------------------------------------------ bytes

QUOTE == "\""
NL == "\n"
CR == "\r"
NULL == -1         \* a null pointer / "not found"

\* The reader treats every byte other than the delimiter, the quote, LF and CR
\* alike, so with two delimiters in the alphabet each one is the plain data
\* byte of a parse under the other.
Alphabet == {",", ";", QUOTE, NL, CR}
Delims == {",", ";"}

BoundedSeq(S, n) == UNION {[1..k -> S] : k \in 0..n}

At(base, i) == base[i + 1]

Min(a, b) == IF a < b THEN a ELSE b

\* The bytes a view denotes (the default-constructed view denotes none).
Text(base, v) == IF v.len = 0 THEN <<>> ELSE SubSeq(base, v.off + 1, v.off + v.len)

\* --------------------------------------------------------- find_line_end

RECURSIVE memchr(_, _, _, _)
memchr(base, start, c, n) ==
  IF n <= 0 THEN NULL
  ELSE IF At(base, start) = c THEN start
  ELSE memchr(base, start + 1, c, n - 1)

RECURSIVE quote_aware_scan(_, _, _, _)
quote_aware_scan(base, total, i, in_quotes) ==
  IF i >= total THEN total
  ELSE IF At(base, i) = QUOTE THEN quote_aware_scan(base, total, i + 1, ~in_quotes)
  ELSE IF ~in_quotes /\ At(base, i) = NL THEN i
  ELSE quote_aware_scan(base, total, i + 1, in_quotes)

\* Mutant of find_line_end: the fast path is always taken.
find_line_end_fast_only(base, total, start) ==
  LET nl == memchr(base, start, NL, total - start)
  IN IF nl # NULL THEN nl ELSE total

find_line_end(base, total, start) ==
  LET nl == memchr(base, start, NL, total - start)
      nl_pos == IF nl # NULL THEN nl ELSE total
      q == memchr(base, start, QUOTE, nl_pos - start)
  IN IF q = NULL THEN nl_pos
     ELSE quote_aware_scan(base, total, start, FALSE)

\* ----------------------------------------------------- parse_line_fields

\* Mutant of plf_quoted_scan: a doubled quote ends the field.
RECURSIVE plf_quoted_scan_no_pairs(_, _, _)
plf_quoted_scan_no_pairs(base, i, end) ==
  IF i >= end THEN i
  ELSE IF At(base, i) = QUOTE THEN i
  ELSE plf_quoted_scan_no_pairs(base, i + 1, end)

\* The inner while of a quoted field: the offset of the closing quote, or end.
RECURSIVE plf_quoted_scan(_, _, _)
plf_quoted_scan(base, i, end) ==
  IF i >= end THEN i
  ELSE IF At(base, i) = QUOTE
       THEN IF i + 1 < end /\ At(base, i + 1) = QUOTE
            THEN plf_quoted_scan(base, i + 2, end)
            ELSE i
       ELSE plf_quoted_scan(base, i + 1, end)

RECURSIVE plf_plain_scan(_, _, _, _)
plf_plain_scan(base, i, end, delim) ==
  IF i < end /\ At(base, i) # delim THEN plf_plain_scan(base, i + 1, end, delim) ELSE i

\* One iteration of the while loop: the view emitted and the next offset.
plf_field(base, i, end, delim) ==
  IF At(base, i) = QUOTE
  THEN LET q == plf_quoted_scan(base, i + 1, end)
           j == IF q < end THEN q + 1 ELSE q
       IN [view |-> [off |-> i, len |-> j - i],
           next |-> IF j < end /\ At(base, j) = delim THEN j + 1 ELSE j]
  ELSE LET j == plf_plain_scan(base, i, end, delim)
       IN [view |-> [off |-> i, len |-> j - i],
           next |-> IF j < end THEN j + 1 ELSE j]

RECURSIVE plf_loop(_, _, _, _, _)
plf_loop(base, i, end, delim, fields) ==
  IF i < end
  THEN LET f == plf_field(base, i, end, delim)
       IN plf_loop(base, f.next, end, delim, Append(fields, f.view))
  ELSE fields

parse_line_fields(base, start, end, delim) ==
  IF start = end THEN <<>>
  ELSE LET fields == plf_loop(base, start, end, delim, <<>>)
       IN IF end > start /\ At(base, end - 1) = delim
          THEN Append(fields, [off |-> end, len |-> 0])
          ELSE fields

\* ---------------------------------------------------------- parse_header

\* The header views, the column count and the offset of the first body line.
parse_header(base, file_size, delimiter) ==
  IF file_size = 0
  THEN [headers |-> <<>>, ncols |-> 0, pos |-> 0]
  ELSE LET line_end == find_line_end(base, file_size, 0)
           actual_end == IF line_end > 0 /\ At(base, line_end - 1) = CR
                         THEN line_end - 1 ELSE line_end
           hs == parse_line_fields(base, 0, actual_end, delimiter)
       IN [headers |-> hs, ncols |-> Len(hs),
           pos |-> IF line_end < file_size THEN line_end + 1 ELSE file_size]

\* ----------------------------------------------------- append_row_fields

\* Mutant of arf_quoted_scan: a doubled quote ends the field.
RECURSIVE arf_quoted_scan_no_pairs(_, _, _)
arf_quoted_scan_no_pairs(base, i, end) ==
  IF i >= end THEN i
  ELSE IF At(base, i) = QUOTE THEN i
  ELSE arf_quoted_scan_no_pairs(base, i + 1, end)

RECURSIVE arf_quoted_scan(_, _, _)
arf_quoted_scan(base, i, end) ==
  IF i >= end THEN i
  ELSE IF At(base, i) = QUOTE
       THEN IF i + 1 < end /\ At(base, i + 1) = QUOTE
            THEN arf_quoted_scan(base, i + 2, end)
            ELSE i
       ELSE arf_quoted_scan(base, i + 1, end)

RECURSIVE arf_plain_scan(_, _, _, _)
arf_plain_scan(base, i, end, delim) ==
  IF i < end /\ At(base, i) # delim THEN arf_plain_scan(base, i + 1, end, delim) ELSE i

arf_field(base, i, end, delim) ==
  IF At(base, i) = QUOTE
  THEN LET q == arf_quoted_scan(base, i + 1, end)
           j == IF q < end THEN q + 1 ELSE q
       IN [view |-> [off |-> i, len |-> j - i],
           next |-> IF j < end /\ At(base, j) = delim THEN j + 1 ELSE j]
  ELSE LET j == arf_plain_scan(base, i, end, delim)
       IN [view |-> [off |-> i, len |-> j - i],
           next |-> IF j < end THEN j + 1 ELSE j]

\* Mutant of arf_loop: the loop forgets the ncols budget.
RECURSIVE arf_loop_no_budget(_, _, _, _, _, _)
arf_loop_no_budget(base, i, end, delim, ncols, added) ==
  IF i < end
  THEN LET f == arf_field(base, i, end, delim)
       IN arf_loop_no_budget(base, f.next, end, delim, ncols, Append(added, f.view))
  ELSE added

\* The main while loop: the views emitted for this row.
RECURSIVE arf_loop(_, _, _, _, _, _)
arf_loop(base, i, end, delim, ncols, added) ==
  IF i < end /\ Len(added) < ncols
  THEN LET f == arf_field(base, i, end, delim)
       IN arf_loop(base, f.next, end, delim, ncols, Append(added, f.view))
  ELSE added

\* Trailing delimiter -> one more empty field.
arf_trailing(base, start, end, delim, ncols, added) ==
  IF Len(added) < ncols /\ end > start /\ At(base, end - 1) = delim
  THEN Append(added, [off |-> NULL, len |-> 0])
  ELSE added

\* Mutant of arf_pad: ragged rows are left short.
arf_pad_none(ncols, added) == added

\* Pad ragged rows.
RECURSIVE arf_pad(_, _)
arf_pad(ncols, added) ==
  IF Len(added) < ncols
  THEN arf_pad(ncols, Append(added, [off |-> NULL, len |-> 0]))
  ELSE added

\* The views append_row_fields appends to fields_ for the line [start, end).
append_row_fields(base, start, end, delim, ncols) ==
  arf_pad(ncols,
          arf_trailing(base, start, end, delim, ncols,
                       arf_loop(base, start, end, delim, ncols, <<>>)))

\* -------------------------------------------------------- count_rows_from

RECURSIVE count_newlines(_, _, _)
count_newlines(d, i, len) ==
  IF i >= len THEN 0
  ELSE (IF At(d, i) = NL THEN 1 ELSE 0) + count_newlines(d, i + 1, len)

RECURSIVE crf_quote_aware(_, _, _, _)
crf_quote_aware(d, i, len, in_quotes) ==
  IF i >= len THEN 0
  ELSE IF At(d, i) = QUOTE THEN crf_quote_aware(d, i + 1, len, ~in_quotes)
  ELSE IF ~in_quotes /\ At(d, i) = NL THEN 1 + crf_quote_aware(d, i + 1, len, in_quotes)
  ELSE crf_quote_aware(d, i + 1, len, in_quotes)

count_rows_from(base, file_size, offset) ==
  IF offset >= file_size THEN 0
  ELSE LET d == SubSeq(base, offset + 1, file_size)
           len == file_size - offset
           last == IF At(d, len - 1) # NL THEN 1 ELSE 0
       IN IF memchr(d, 0, QUOTE, len) = NULL
          THEN count_newlines(d, 0, len) + last
          ELSE crf_quote_aware(d, 0, len, FALSE) + last

\* ------------------------------------------------------ parse / parse_head

\* Mutant of parse_loop_blank_counted: a blank line is stored and counted as a row.
RECURSIVE parse_loop_blank_counted(_, _, _, _, _, _, _)
parse_loop_blank_counted(base, total, pos, delimiter, ncols, fields, rows) ==
  IF pos < total
  THEN LET line_end == find_line_end(base, total, pos)
           actual_end == IF line_end > pos /\ At(base, line_end - 1) = CR
                         THEN line_end - 1 ELSE line_end
           next == IF line_end < total THEN line_end + 1 ELSE total
       IN IF FALSE
          THEN parse_loop_blank_counted(base, total, next, delimiter, ncols, fields, rows)
          ELSE parse_loop_blank_counted(base, total, next, delimiter, ncols,
                          fields \o append_row_fields(base, pos, actual_end, delimiter, ncols),
                          rows + 1)
  ELSE [fields |-> fields, rows |-> rows]

\* The body loop of parse: the fields and the row count it leaves.
RECURSIVE parse_loop(_, _, _, _, _, _, _)
parse_loop(base, total, pos, delimiter, ncols, fields, rows) ==
  IF pos < total
  THEN LET line_end == find_line_end(base, total, pos)
           actual_end == IF line_end > pos /\ At(base, line_end - 1) = CR
                         THEN line_end - 1 ELSE line_end
           next == IF line_end < total THEN line_end + 1 ELSE total
       IN IF actual_end = pos
          THEN parse_loop(base, total, next, delimiter, ncols, fields, rows)
          ELSE parse_loop(base, total, next, delimiter, ncols,
                          fields \o append_row_fields(base, pos, actual_end, delimiter, ncols),
                          rows + 1)
  ELSE [fields |-> fields, rows |-> rows]

\* The body loop of parse_head: also the offset at which it stopped.
\* Mutant of head_loop_guard: one row too many.
head_loop_guard_off_by_one(pos, total, rows, max_rows) == pos < total /\ rows <= max_rows

\* The loop condition of parse_head.
head_loop_guard(pos, total, rows, max_rows) == pos < total /\ rows < max_rows

\* Mutant of parse_head_loop: a blank line uses up one of the max_rows.
RECURSIVE parse_head_loop_blank_budget(_, _, _, _, _, _, _, _)
parse_head_loop_blank_budget(base, total, pos, delimiter, ncols, max_rows, fields, rows) ==
  IF head_loop_guard(pos, total, rows, max_rows)
  THEN LET line_end == find_line_end(base, total, pos)
           actual_end == IF line_end > pos /\ At(base, line_end - 1) = CR
                         THEN line_end - 1 ELSE line_end
           next == IF line_end < total THEN line_end + 1 ELSE total
       IN IF actual_end = pos
          THEN parse_head_loop_blank_budget(base, total, next, delimiter, ncols, max_rows - 1, fields, rows)
          ELSE parse_head_loop_blank_budget(base, total, next, delimiter, ncols, max_rows,
                               fields \o append_row_fields(base, pos, actual_end, delimiter, ncols),
                               rows + 1)
  ELSE [fields |-> fields, rows |-> rows, pos |-> pos]

RECURSIVE parse_head_loop(_, _, _, _, _, _, _, _)
parse_head_loop(base, total, pos, delimiter, ncols, max_rows, fields, rows) ==
  IF head_loop_guard(pos, total, rows, max_rows)
  THEN LET line_end == find_line_end(base, total, pos)
           actual_end == IF line_end > pos /\ At(base, line_end - 1) = CR
                         THEN line_end - 1 ELSE line_end
           next == IF line_end < total THEN line_end + 1 ELSE total
       IN IF actual_end = pos
          THEN parse_head_loop(base, total, next, delimiter, ncols, max_rows, fields, rows)
          ELSE parse_head_loop(base, total, next, delimiter, ncols, max_rows,
                               fields \o append_row_fields(base, pos, actual_end, delimiter, ncols),
                               rows + 1)
  ELSE [fields |-> fields, rows |-> rows, pos |-> pos]

\* The members a build writes, held as one record.
members ==
  [headers |-> headers_, fields |-> fields_, ncols |-> ncols_,
   parsed_rows |-> parsed_rows_, total_rows |-> total_rows_]

\* The members of a reader just constructed.
new_reader ==
  [headers |-> <<>>, fields |-> <<>>, ncols |-> 0, parsed_rows |-> 0, total_rows |-> 0]

\* Mutant of clear: the field store is not cleared.
clear_fields_kept(t) ==
  [headers |-> <<>>, fields |-> t.fields, ncols |-> 0, parsed_rows |-> 0, total_rows |-> 0]

\* The five resets a build starts with.
clear(t) ==
  [headers |-> <<>>, fields |-> <<>>, ncols |-> 0, parsed_rows |-> 0, total_rows |-> 0]

\* The members after parse_header(delimiter) ran on the members t, and the
\* offset it returned; over an empty backing store it assigns nothing.
header_parsed(t, base, delimiter) ==
  IF Len(base) = 0
  THEN [members |-> t, pos |-> 0]
  ELSE LET h == parse_header(base, Len(base), delimiter)
       IN [members |-> [t EXCEPT !.headers = h.headers, !.ncols = h.ncols],
           pos |-> h.pos]

\* parse from the test of ncols_ on: the rows are appended to the members t.
parse_rows(t, base, delimiter, pos) ==
  IF t.ncols = 0 THEN t
  ELSE LET b == parse_loop(base, Len(base), pos, delimiter, t.ncols,
                           t.fields, t.parsed_rows)
       IN [t EXCEPT !.fields = b.fields, !.parsed_rows = b.rows, !.total_rows = b.rows]

\* parse_head from the test of ncols_ on.
parse_head_rows(t, base, delimiter, max_rows, pos) ==
  IF t.ncols = 0 THEN t
  ELSE LET b == parse_head_loop(base, Len(base), pos, delimiter, t.ncols,
                                max_rows, t.fields, t.parsed_rows)
       IN [t EXCEPT !.fields = b.fields, !.parsed_rows = b.rows,
                    !.total_rows = b.rows + count_rows_from(base, Len(base), b.pos)]

\* What parse(delimiter) leaves in a reader whose members were t.
parse_on(t, base, delimiter) ==
  LET h == header_parsed(clear(t), base, delimiter)
  IN parse_rows(h.members, base, delimiter, h.pos)

\* What parse_head(delimiter, max_rows) leaves in a reader whose members were t.
parse_head_on(t, base, delimiter, max_rows) ==
  LET h == header_parsed(clear(t), base, delimiter)
  IN parse_head_rows(h.members, base, delimiter, max_rows, h.pos)

\* What parse(delimiter) leaves in a reader just constructed.
parse(base, delimiter) == parse_on(new_reader, base, delimiter)

\* What parse_head(delimiter, max_rows) leaves in a reader just constructed.
parse_head(base, delimiter, max_rows) ==
  parse_head_on(new_reader, base, delimiter, max_rows)

\* CsvReader::row(i)
row(i) == SubSeq(fields_, i * ncols_ + 1, i * ncols_ + ncols_)

\* ------------------------------------------------------------ the reader

\* A reader just constructed over the bytes b: nothing parsed yet.
Constructed(b) ==
  /\ buf = b
  /\ headers_ = <<>>
  /\ fields_ = <<>>
  /\ ncols_ = 0
  /\ parsed_rows_ = 0
  /\ total_rows_ = 0
  /\ last_call = [op |-> "none", delimiter |-> ",", max_rows |-> 0]

\* The parts of the state a specification does not use stay idle.
FieldIdle == field_x = <<>> /\ field_raw = <<>> /\ field_text = <<>> /\ field_pc = "idle"
DelimIdle ==
  /\ sample_lines = 0
  /\ delim_out = ","
  /\ alt = <<>>
  /\ alt_out = ","
  /\ delim_pc = "idle"
InferIdle == sample_size = 0 /\ schema = <<>> /\ infer_pc = "idle"
\* No call made yet.
NoResult == [kind |-> "none"]

QueryIdle ==
  /\ filter_expr = <<>>
  /\ filter_res = NoResult
  /\ q_call = [op |-> "none"]
  /\ q_res = NoResult
  /\ indices = <<>>

\* The values of CsvReader::addr.
NULLPTR == "nullptr"
MAP_FAILED == "MAP_FAILED"
MAPPING == "mapping"          \* what a successful mmap returned
STDIN_DATA == "stdin_buf_"    \* stdin_buf_.data()

\* No reader constructed yet; the members hold their default initializers.
LifeIdle ==
  /\ life_pc = "none"
  /\ csv_fd = -1
  /\ file_size_ = 0
  /\ addr = NULLPTR
  /\ stdin_buf_ = 0
  /\ sys_calls = <<>>
  /\ readers = 0

\* No pager run: resize_flag holds its static initializer.
PagerIdle ==
  /\ pg_pc = "idle"
  /\ st = NoResult
  /\ resize_flag = 1
  /\ winsize = NoResult
  /\ col_widths = <<>>
  /\ pg_args = NoResult
  /\ pg_last = NoResult

\* No build recorded, no line function called and no pager run.
RestIdle ==
  /\ prior = NoResult
  /\ line_call = [op |-> "none"]
  /\ line_res = NoResult
  /\ PagerIdle

Init ==
  /\ \E b \in BoundedSeq(Alphabet, MaxLen) : Constructed(b)
  /\ FieldIdle
  /\ DelimIdle
  /\ QueryIdle
  /\ LifeIdle
  /\ RestIdle
  /\ InferIdle

\* A build ends: the members it leaves are stored and the call is recorded.
Built(r, op, delimiter, max_rows) ==
  /\ headers_' = r.headers
  /\ fields_' = r.fields
  /\ ncols_' = r.ncols
  /\ parsed_rows_' = r.parsed_rows
  /\ total_rows_' = r.total_rows
  /\ last_call' = [op |-> op, delimiter |-> delimiter, max_rows |-> max_rows]
  /\ UNCHANGED <<buf, fieldVars, delimVars, inferVars, queryVars, lifeVars>>

Parse(delimiter) ==
  \E r \in {parse_on(members, buf, delimiter)} :
     /\ Built(r, "parse", delimiter, 0)
     /\ UNCHANGED restVars

ParseHead(delimiter, max_rows) ==
  \E r \in {parse_head_on(members, buf, delimiter, max_rows)} :
     /\ Built(r, "parse_head", delimiter, max_rows)
     /\ UNCHANGED restVars

Next ==
  \/ \E d \in Delims : Parse(d)
  \/ \E d \in Delims, n \in 0..MaxRows : ParseHead(d, n)

Spec == Init /\ [][Next]_vars

\* ------------------------------------------------- claims about the reader

\* The non-blank lines from offset pos on, as the body loop walks them:
\* each the [start, end) of a line without its terminator and trailing CR.
RECURSIVE data_lines(_, _, _)
data_lines(base, total, pos) ==
  IF pos >= total THEN <<>>
  ELSE LET line_end == find_line_end(base, total, pos)
           actual_end == IF line_end > pos /\ At(base, line_end - 1) = CR
                         THEN line_end - 1 ELSE line_end
           next == IF line_end < total THEN line_end + 1 ELSE total
       IN IF actual_end = pos
          THEN data_lines(base, total, next)
          ELSE <<[start |-> pos, end |-> actual_end]>> \o data_lines(base, total, next)

\* The data lines of the backing store under the delimiter of the last call.
body_lines == data_lines(buf, Len(buf), parse_header(buf, Len(buf), last_call.delimiter).pos)

\* C1: after any sequence of parse and parse_head calls the flat field store
\* holds exactly row_count() * column_count() views, so that row(i) of every
\* i < row_count() lies inside the store and has column_count() fields.
C1_FlatStoreSize ==
  /\ Len(fields_) = parsed_rows_ * ncols_
  /\ \A i \in 0..(parsed_rows_ - 1) :
       /\ i * ncols_ + ncols_ <= Len(fields_)
       /\ Len(row(i)) = ncols_

\* C1 witness: a head parse stored two rows of two columns, one of them for
\* a ragged line with a single raw field.
C1_Witness ==
  /\ last_call.op = "parse_head"
  /\ ncols_ >= 2
  /\ parsed_rows_ >= 2
  /\ Len(fields_) = parsed_rows_ * ncols_
  /\ \E r \in 1..parsed_rows_ :
       Len(parse_line_fields(buf, body_lines[r].start, body_lines[r].end,
                             last_call.delimiter)) < ncols_

\* C2: every non-blank data line yields a row of exactly ncols fields: the
\* line's raw fields (those the line splitter parse_line_fields finds) in
\* order, cut after the first ncols of them, and followed by empty fields
\* when there are fewer than ncols.  A full parse has one row per such line.
C2_RaggedRows ==
  (last_call.op # "none" /\ ncols_ > 0) =>
    /\ Len(fields_) = parsed_rows_ * ncols_
    /\ parsed_rows_ <= Len(body_lines)
    /\ last_call.op = "parse" => parsed_rows_ = Len(body_lines)
    /\ \A r \in 1..parsed_rows_ :
         LET raw == parse_line_fields(buf, body_lines[r].start, body_lines[r].end,
                                      last_call.delimiter)
             got == row(r - 1)
         IN /\ Len(got) = ncols_
            /\ \A k \in 1..ncols_ :
                 Text(buf, got[k]) = IF k <= Len(raw) THEN Text(buf, raw[k]) ELSE <<>>

\* C2 witness: a full parse stored a row for a line with more raw fields than
\* the header has columns.
C2_Witness ==
  /\ last_call.op = "parse"
  /\ ncols_ > 0
  /\ parsed_rows_ = Len(body_lines)
  /\ \E r \in 1..parsed_rows_ :
       Len(parse_line_fields(buf, body_lines[r].start, body_lines[r].end,
                             last_call.delimiter)) > ncols_

\* C3: after parse_head(d, n), row_count() is min(n, R), R being the
\* row_count() a full parse(d) of the same bytes produces.
C3_HeadRowCount ==
  last_call.op = "parse_head" =>
    parsed_rows_ = Min(last_call.max_rows, parse(buf, last_call.delimiter).parsed_rows)

\* C3 witness: a head parse that stopped at max_rows >= 1 with rows left over.
C3_Witness ==
  /\ last_call.op = "parse_head"
  /\ last_call.max_rows >= 1
  /\ parsed_rows_ = last_call.max_rows
  /\ parse(buf, last_call.delimiter).parsed_rows > last_call.max_rows

\* C4: after parse_head(d, n), total_rows() is the true row count, the
\* row_count() a full parse(d) of the same bytes produces.
C4_TotalRowsIsTrueCount ==
  last_call.op = "parse_head" =>
    total_rows_ = parse(buf, last_call.delimiter).parsed_rows

\* The first n rows of a build result t, as stored in its flat field store.
first_rows(t, n) == SubSeq(t.fields, 1, n * t.ncols)

\* C26: for every input and every n the headers and the rows held after
\* parse_head(d, n) are, view for view, the headers and the first min(n, R)
\* rows held after parse(d) on the same bytes, R being its row count.
C26_HeadIsPrefixOfFull ==
  last_call.op = "parse_head" =>
    \A full \in {parse(buf, last_call.delimiter)} :
      /\ headers_ = full.headers
      /\ ncols_ = full.ncols
      /\ parsed_rows_ = Min(last_call.max_rows, full.parsed_rows)
      /\ fields_ = first_rows(full, parsed_rows_)

\* C26 witness: a head parse that holds one row with a non-empty field
\* while the full parse holds a second row.
C26_Witness ==
  /\ last_call.op = "parse_head"
  /\ parsed_rows_ = 1
  /\ \E k \in 1..ncols_ : fields_[k].len > 0
  /\ parse(buf, last_call.delimiter).parsed_rows = 2
  /\ Len(parse(buf, last_call.delimiter).fields) = 2 * Len(fields_)

\* ------------------------------------------------------------------ unquote

MaxField == 4      \* longest text handed to quoteField

FieldAlphabet == {"a", ",", QUOTE, NL}

\* Mutant of unquote_loop: a doubled quote is copied byte by byte.
RECURSIVE unquote_loop_no_unescape(_, _, _)
unquote_loop_no_unescape(field, i, result) ==
  IF i >= Len(field) THEN result
  ELSE unquote_loop_no_unescape(field, i + 1, Append(result, At(field, i)))

\* The for loop of unquote over the field without its outer quotes.
RECURSIVE unquote_loop(_, _, _)
unquote_loop(field, i, result) ==
  IF i >= Len(field) THEN result
  ELSE IF At(field, i) = QUOTE /\ i + 1 < Len(field) /\ At(field, i + 1) = QUOTE
       THEN unquote_loop(field, i + 2, Append(result, QUOTE))
       ELSE unquote_loop(field, i + 1, Append(result, At(field, i)))

unquote(field) ==
  IF Len(field) >= 2 /\ field[1] = QUOTE /\ field[Len(field)] = QUOTE
  THEN unquote_loop(SubSeq(field, 2, Len(field) - 1), 0, <<>>)
  ELSE field

\* quoteField of spec section 8: x wrapped in double quotes, each embedded
\* quote doubled.
RECURSIVE double_quotes(_)
double_quotes(x) ==
  IF x = <<>> THEN <<>>
  ELSE (IF Head(x) = QUOTE THEN <<QUOTE, QUOTE>> ELSE <<Head(x)>>) \o double_quotes(Tail(x))

quoteField(x) == <<QUOTE>> \o double_quotes(x) \o <<QUOTE>>

ReaderIdle == Constructed(<<>>)

InitUnquote ==
  /\ field_x \in BoundedSeq(FieldAlphabet, MaxField)
  /\ field_raw = field_x
  /\ field_text = <<>>
  /\ field_pc = "raw"
  /\ ReaderIdle
  /\ DelimIdle
  /\ QueryIdle
  /\ LifeIdle
  /\ RestIdle
  /\ InferIdle

\* The text is turned into a quoted field.
QuoteField ==
  /\ field_pc = "raw"
  /\ field_raw' = quoteField(field_x)
  /\ field_pc' = "quoted"
  /\ UNCHANGED <<field_x, field_text, readerVars, delimVars, inferVars, queryVars, lifeVars, restVars>>

\* unquote is called on the raw field.
Unquote ==
  /\ field_pc \in {"raw", "quoted"}
  /\ field_text' = unquote(field_raw)
  /\ field_pc' = IF field_pc = "quoted" THEN "unquoted" ELSE "unquoted_raw"
  /\ UNCHANGED <<field_x, field_raw, readerVars, delimVars, inferVars, queryVars, lifeVars, restVars>>

NextUnquote == QuoteField \/ Unquote

SpecUnquote == InitUnquote /\ [][NextUnquote]_vars

\* C5: unquote(quoteField(x)) = x for every text x, quotes, commas and
\* newlines included.
C5_UnquoteRoundTrip == field_pc = "unquoted" => field_text = field_x

\* C5 witness: a text holding a quote, a comma and a newline came back from
\* the round trip.
C5_Witness ==
  /\ field_pc = "unquoted"
  /\ field_text = field_x
  /\ \A c \in {QUOTE, ",", NL} : \E i \in 1..Len(field_x) : field_x[i] = c

\* --------------------------------------------------------- detect_delimiter

MaxData == 4       \* longest input handed to detect_delimiter
MaxSample == 2     \* largest sample_lines argument

TAB == "\t"
Candidates == <<",", TAB, "|", ";">>
CandidateSet == {Candidates[i] : i \in 1..Len(Candidates)}

DelimAlphabet == CandidateSet \cup {"a", QUOTE, NL, CR}

\* What may follow the sampled lines in a second input.
Tails == {<<>>, <<NL>>, <<"a">>, <<QUOTE>>, <<NL, ";", ";">>, <<";", "|", ";">>}

\* Mutant of count_fields_from: the quote state is ignored.
RECURSIVE count_fields_unquoted(_, _, _, _, _)
count_fields_unquoted(line, i, len, delim, in_quotes) ==
  IF i >= len THEN 0
  ELSE (IF At(line, i) = delim THEN 1 ELSE 0)
       + count_fields_unquoted(line, i + 1, len, delim, in_quotes)

\* The for loop of count_fields: the delimiters met outside quotes from i on.
RECURSIVE count_fields_from(_, _, _, _, _)
count_fields_from(line, i, len, delim, in_quotes) ==
  IF i >= len THEN 0
  ELSE IF At(line, i) = QUOTE THEN count_fields_from(line, i + 1, len, delim, ~in_quotes)
  ELSE IF ~in_quotes /\ At(line, i) = delim
       THEN 1 + count_fields_from(line, i + 1, len, delim, in_quotes)
  ELSE count_fields_from(line, i + 1, len, delim, in_quotes)

count_fields(line, len, delim) == 1 + count_fields_from(line, 0, len, delim, FALSE)

\* The inner while of the line collector: where the scan of one line stops.
RECURSIVE dd_line_scan(_, _, _, _)
dd_line_scan(data, size, pos, in_quotes) ==
  IF pos >= size THEN pos
  ELSE IF At(data, pos) = QUOTE THEN dd_line_scan(data, size, pos + 1, ~in_quotes)
  ELSE IF ~in_quotes /\ At(data, pos) = NL THEN pos
  ELSE dd_line_scan(data, size, pos + 1, in_quotes)

\* Mutant of dd_sample_guard: one line too many is sampled.
dd_sample_guard_off_by_one(pos, size, nlines, limit) == pos < size /\ nlines <= limit

\* The condition of the outer while of the line collector.
dd_sample_guard(pos, size, nlines, limit) == pos < size /\ nlines < limit

\* The LineSpans collected for up to `limit` non-empty lines.
RECURSIVE dd_collect_lines(_, _, _, _, _)
dd_collect_lines(data, size, limit, pos, lines) ==
  IF dd_sample_guard(pos, size, Len(lines), limit)
  THEN LET p == dd_line_scan(data, size, pos, FALSE)
           end == IF p > pos /\ At(data, p - 1) = CR THEN p - 1 ELSE p
       IN dd_collect_lines(data, size, limit, IF p < size THEN p + 1 ELSE p,
                           IF end > pos
                           THEN Append(lines, [start |-> pos, len |-> end - pos])
                           ELSE lines)
  ELSE lines

RECURSIVE SumSeq(_)
SumSeq(q) == IF q = <<>> THEN 0 ELSE Head(q) + SumSeq(Tail(q))

\* The field counts of candidate c, one per sampled line.
dd_counts(data, lines, c) ==
  [l \in 1..Len(lines) |->
     count_fields(SubSeq(data, lines[l].start + 1, Len(data)), lines[l].len, c)]

\* mean < 2.0, the mean being sum / size.
dd_disqualified(counts) == SumSeq(counts) < 2 * Len(counts)

\* The score mean / (1 + stddev) of n counts equals s / (n + sqrt(v)) with
\* s the sum of the counts and v = n * (sum of squares) - s * s, so a score is
\* kept as the integers s, v, n and two scores are compared exactly.
dd_score(counts) ==
  LET n == Len(counts)
      sum == SumSeq(counts)
  IN [set |-> TRUE, s |-> sum, n |-> n,
      v |-> n * SumSeq([l \in 1..n |-> counts[l] * counts[l]]) - sum * sum]

\* sqrt(p) < a + sqrt(q), for integers p, q >= 0 and a.
sqrt_lt(p, a, q) ==
  IF a >= 0
  THEN LET c == p - a * a - q IN c < 0 \/ c * c < 4 * a * a * q
  ELSE LET c == q - a * a - p IN c > 0 /\ c * c > 4 * a * a * p

\* Mutant of dd_better: the comparison is reversed.
dd_better_reversed(x, y) ==
  y.set /\ sqrt_lt(x.s * x.s * y.v, x.n * (y.s - x.s), y.s * y.s * x.v)

\* score > best_score; best_score starts at -1.0, below every score.
dd_better(x, y) ==
  ~y.set \/ sqrt_lt(y.s * y.s * x.v, x.n * (x.s - y.s), x.s * x.s * y.v)

\* The for loop over the candidates, from candidate number ci on.
RECURSIVE dd_pick(_, _, _, _, _)
dd_pick(data, lines, ci, best, best_score) ==
  IF ci > Len(Candidates) THEN best
  ELSE LET counts == dd_counts(data, lines, Candidates[ci])
       IN IF dd_disqualified(counts)
          THEN dd_pick(data, lines, ci + 1, best, best_score)
          ELSE IF dd_better(dd_score(counts), best_score)
               THEN dd_pick(data, lines, ci + 1, Candidates[ci], dd_score(counts))
               ELSE dd_pick(data, lines, ci + 1, best, best_score)

detect_delimiter(data, size, limit) ==
  IF size = 0 THEN ","
  ELSE LET lines == dd_collect_lines(data, size, limit, 0, <<>>)
       IN IF lines = <<>> THEN ","
          ELSE dd_pick(data, lines, 1, ",", [set |-> FALSE, s |-> 0, n |-> 1, v |-> 0])

InitDelim ==
  /\ \E b \in BoundedSeq(DelimAlphabet, MaxData) : Constructed(b)
  /\ sample_lines = 0
  /\ delim_out = ","
  /\ alt = <<>>
  /\ alt_out = ","
  /\ delim_pc = "start"
  /\ FieldIdle
  /\ InferIdle
  /\ QueryIdle
  /\ LifeIdle
  /\ RestIdle

\* detect_delimiter(data(), size(), k) on the reader's bytes.
Detect(k) ==
  /\ delim_pc = "start"
  /\ sample_lines' = k
  /\ delim_out' = detect_delimiter(buf, Len(buf), k)
  /\ delim_pc' = "detected"
  /\ UNCHANGED <<readerVars, alt, alt_out, fieldVars, inferVars, queryVars, lifeVars, restVars>>

\* ---- notions the claims about the detector are stated with

\* A quote is open at offset i of a line starting at offset start.
open_quote(data, start, i) ==
  Cardinality({j \in start..(i - 1) : At(data, j) = QUOTE}) % 2 = 1

\* Where the line starting at start stops: its newline outside quotes, or the end.
line_stop(data, start) ==
  LET stops == {i \in start..(Len(data) - 1) : At(data, i) = NL /\ ~open_quote(data, start, i)}
  IN IF stops = {} THEN Len(data) ELSE CHOOSE i \in stops : \A j \in stops : i <= j

\* The non-empty lines from start on, without terminator and trailing CR.
RECURSIVE nonempty_lines(_, _)
nonempty_lines(data, start) ==
  IF start >= Len(data) THEN <<>>
  ELSE LET p == line_stop(data, start)
           e == IF p > start /\ At(data, p - 1) = CR THEN p - 1 ELSE p
       IN (IF e > start THEN <<[start |-> start, len |-> e - start]>> ELSE <<>>)
          \o nonempty_lines(data, p + 1)

\* The first k non-empty lines.
first_lines(data, k) ==
  LET all == nonempty_lines(data, 0) IN SubSeq(all, 1, Min(k, Len(all)))

\* One more than the occurrences of c outside quotes in a line.
fields_of(data, line, c) ==
  1 + Cardinality({i \in line.start..(line.start + line.len - 1) :
                     At(data, i) = c /\ ~open_quote(data, line.start, i)})

\* Candidate c has at least two fields on every one of the lines.
separates(data, lines, c) == \A l \in 1..Len(lines) : fields_of(data, lines[l], c) >= 2

\* Candidate c has a mean field count of at least 2 over the lines.
qualifies(data, lines, c) ==
  SumSeq([l \in 1..Len(lines) |-> fields_of(data, lines[l], c)]) >= 2 * Len(lines)

\* The offset at which the k-th non-empty line stops, NULL when there is none
\* (0 for k = 0: nothing is sampled).
kth_line_stop(data, k) ==
  IF k = 0 THEN 0
  ELSE IF Len(nonempty_lines(data, 0)) < k THEN NULL
  ELSE line_stop(data, nonempty_lines(data, 0)[k].start)

\* Two inputs are identical up to the end of their k-th non-empty line.
same_through_kth_line(a, b, k) ==
  /\ kth_line_stop(a, k) # NULL
  /\ kth_line_stop(b, k) = kth_line_stop(a, k)
  /\ SubSeq(a, 1, kth_line_stop(a, k)) = SubSeq(b, 1, kth_line_stop(a, k))

\* A second run with the same sample_lines, on the bytes of buf through the
\* end of its k-th non-empty line followed by other bytes.
DetectAlt(tail) ==
  /\ delim_pc = "detected"
  /\ kth_line_stop(buf, sample_lines) # NULL
  /\ \E a \in {SubSeq(buf, 1, kth_line_stop(buf, sample_lines)) \o tail} :
       /\ alt' = a
       /\ alt_out' = detect_delimiter(a, Len(a), sample_lines)
  /\ delim_pc' = "compared"
  /\ UNCHANGED <<readerVars, sample_lines, delim_out, fieldVars, inferVars, queryVars, lifeVars, restVars>>

NextDelim ==
  \/ \E k \in 0..MaxSample : Detect(k)
  \/ \E tail \in Tails : DetectAlt(tail)

SpecDelim == InitDelim /\ [][NextDelim]_vars

\* C6: an input that uses only the candidate d as a separator and has at
\* least 2 fields on every sampled line yields d; an empty input, or one on
\* which no candidate qualifies, yields the comma.
C6_DetectsSoleDelimiter ==
  delim_pc = "detected" =>
    LET lines == first_lines(buf, sample_lines)
    IN /\ \A d \in CandidateSet :
            ( /\ lines # <<>>
              /\ \A i \in 1..Len(buf) : buf[i] \in CandidateSet => buf[i] = d
              /\ separates(buf, lines, d) )
            => delim_out = d
       /\ ( \/ Len(buf) = 0
            \/ lines = <<>>
            \/ \A c \in CandidateSet : ~qualifies(buf, lines, c) )
          => delim_out = ","

\* C6 witness: two sampled lines separated by semicolons only, with
\* different field counts, gave the semicolon.
C6_Witness ==
  /\ delim_pc = "detected"
  /\ Len(first_lines(buf, sample_lines)) = 2
  /\ \A i \in 1..Len(buf) : buf[i] \in CandidateSet => buf[i] = ";"
  /\ separates(buf, first_lines(buf, sample_lines), ";")
  /\ fields_of(buf, first_lines(buf, sample_lines)[1], ";")
       # fields_of(buf, first_lines(buf, sample_lines)[2], ";")
  /\ delim_out = ";"

\* C7: the sampled lines end only at newlines outside quotes, a candidate
\* met while a quote is open is not counted, and a candidate that occurs
\* only inside quotes (one field on every sampled line) is never returned
\* when another candidate separates every sampled line.
C7_QuotedDelimitersIgnored ==
  delim_pc = "detected" =>
    LET lines == first_lines(buf, sample_lines)
    IN /\ dd_collect_lines(buf, Len(buf), sample_lines, 0, <<>>) = lines
       /\ \A l \in 1..Len(lines), c \in CandidateSet :
            count_fields(SubSeq(buf, lines[l].start + 1, Len(buf)), lines[l].len, c)
              = fields_of(buf, lines[l], c)
       /\ \A c \in CandidateSet :
            ( /\ lines # <<>>
              /\ \A l \in 1..Len(lines) : fields_of(buf, lines[l], c) = 1
              /\ \E e \in CandidateSet \ {c} : separates(buf, lines, e) )
            => delim_out # c

\* C7 witness: pipe-separated data with a comma inside quotes gave the pipe.
C7_Witness ==
  /\ delim_pc = "detected"
  /\ first_lines(buf, sample_lines) # <<>>
  /\ \E i \in 1..Len(buf) : buf[i] = ","
  /\ Cardinality({i \in 1..Len(buf) : buf[i] = QUOTE}) = 2
  /\ \A l \in 1..Len(first_lines(buf, sample_lines)) :
       fields_of(buf, first_lines(buf, sample_lines)[l], ",") = 1
  /\ separates(buf, first_lines(buf, sample_lines), "|")
  /\ delim_out = "|"

\* C8: two inputs identical up to the end of their k-th non-empty line yield
\* the same delimiter under sample_lines = k, whatever bytes follow.
C8_OnlySampledLinesMatter ==
  (delim_pc = "compared" /\ same_through_kth_line(buf, alt, sample_lines))
    => alt_out = delim_out

\* C8 witness: the second input differs from the first after the sampled
\* lines, by bytes that change the answer once they are sampled too.
C8_Witness ==
  /\ delim_pc = "compared"
  /\ sample_lines >= 1
  /\ same_through_kth_line(buf, alt, sample_lines)
  /\ alt # buf
  /\ alt_out = delim_out
  /\ detect_delimiter(alt, Len(alt), sample_lines + 1) # alt_out

\* ------------------------------------------------------------- infer_schema

MaxInferRows == 2         \* most data rows in a table handed to infer_schema
DefaultSampleSize == 100  \* the default sample_size

Digits == {"0", "1", "2", "3", "4", "5", "6", "7", "8", "9"}

\* The bytes 0xC2, 0xA3 and 0xA5 (UTF-8 pound and yen signs) are written
\* "C2", "A3" and "A5".
is_int64(s) ==
  IF s = <<>> THEN FALSE
  ELSE LET i == IF s[1] \in {"-", "+"} THEN 1 ELSE 0
       IN IF i = Len(s) THEN FALSE
          ELSE \A j \in i..(Len(s) - 1) : At(s, j) \in Digits

\* The digits of an exponent, from offset i to the end.
RECURSIVE f64_exponent_digits(_, _)
f64_exponent_digits(s, i) ==
  IF i >= Len(s) THEN TRUE
  ELSE IF At(s, i) \notin Digits THEN FALSE
  ELSE f64_exponent_digits(s, i + 1)

\* The branch taken at an 'e' or 'E' at offset i.
f64_exponent(s, i, has_digit) ==
  IF ~has_digit THEN FALSE
  ELSE LET j == IF i + 1 < Len(s) /\ At(s, i + 1) \in {"+", "-"} THEN i + 2 ELSE i + 1
       IN IF j = Len(s) THEN FALSE ELSE f64_exponent_digits(s, j)

\* The main for loop of is_float64.
RECURSIVE f64_loop(_, _, _, _)
f64_loop(s, i, has_dot, has_digit) ==
  IF i >= Len(s) THEN has_digit /\ has_dot
  ELSE IF At(s, i) = "."
       THEN IF has_dot THEN FALSE ELSE f64_loop(s, i + 1, TRUE, has_digit)
  ELSE IF At(s, i) \in Digits THEN f64_loop(s, i + 1, has_dot, TRUE)
  ELSE IF At(s, i) \in {"e", "E"} THEN f64_exponent(s, i, has_digit)
  ELSE FALSE

is_float64(s) ==
  IF s = <<>> THEN FALSE
  ELSE LET i == IF s[1] \in {"-", "+"} THEN 1 ELSE 0
       IN IF i = Len(s) THEN FALSE ELSE f64_loop(s, i, FALSE, FALSE)

is_date(s) ==
  IF Len(s) < 8 \/ Len(s) > 10 THEN FALSE
  ELSE IF Len(s) = 10 /\ At(s, 4) \in {"-", "/"} /\ At(s, 7) \in {"-", "/"}
       THEN \A i \in {0, 1, 2, 3, 5, 6, 8, 9} : At(s, i) \in Digits
  ELSE IF Len(s) = 10 /\ At(s, 2) \in {"/", "-"} /\ At(s, 5) \in {"/", "-"}
       THEN \A i \in {0, 1, 3, 4, 6, 7, 8, 9} : At(s, i) \in Digits
  ELSE FALSE

\* The for loop of is_currency: [ok, has_digit] once the bytes are consumed.
RECURSIVE currency_loop(_, _, _, _)
currency_loop(s, i, has_digit, has_dot) ==
  IF i >= Len(s) THEN has_digit
  ELSE IF At(s, i) \in Digits THEN currency_loop(s, i + 1, TRUE, has_dot)
  ELSE IF At(s, i) = "," THEN currency_loop(s, i + 1, has_digit, has_dot)
  ELSE IF At(s, i) = "."
       THEN IF has_dot THEN FALSE ELSE currency_loop(s, i + 1, has_digit, TRUE)
  ELSE FALSE

is_currency(s) ==
  IF Len(s) < 2 THEN FALSE
  ELSE LET i == IF s[1] \in {"$", "C2"}
                THEN (IF 1 < Len(s) /\ At(s, 1) \in {"A3", "A5"} THEN 2 ELSE 1)
                ELSE 0
       IN IF i = Len(s) THEN FALSE
          ELSE LET j == IF At(s, i) \in {"-", "+"} THEN i + 1 ELSE i
               IN currency_loop(s, j, FALSE, FALSE) /\ s[1] = "$"

UpperCase == <<"A", "B", "C", "D", "E", "F", "G", "H", "I", "J", "K", "L", "M",
               "N", "O", "P", "Q", "R", "S", "T", "U", "V", "W", "X", "Y", "Z">>
LowerCase == <<"a", "b", "c", "d", "e", "f", "g", "h", "i", "j", "k", "l", "m",
               "n", "o", "p", "q", "r", "s", "t", "u", "v", "w", "x", "y", "z">>

\* c >= 'A' && c <= 'Z' ? c + 32 : c
to_lower(c) ==
  IF \E k \in 1..Len(UpperCase) : UpperCase[k] = c
  THEN LowerCase[CHOOSE k \in 1..Len(UpperCase) : UpperCase[k] = c]
  ELSE c

is_bool(s) ==
  IF Len(s) < 1 \/ Len(s) > 5 THEN FALSE
  ELSE LET lower == [k \in 1..Len(s) |-> to_lower(s[k])]
       IN lower \in {<<"t", "r", "u", "e">>, <<"f", "a", "l", "s", "e">>,
                     <<"y", "e", "s">>, <<"n", "o">>, <<"1">>, <<"0">>}

\* The raw views of column col in the first nrows rows whose unquoted text
\* is not empty (the vector `values`).
RECURSIVE column_values(_, _, _)
column_values(col, r, nrows) ==
  IF r >= nrows THEN <<>>
  ELSE (IF col < Len(row(r)) /\ unquote(Text(buf, row(r)[col + 1])) # <<>>
        THEN <<row(r)[col + 1]>>
        ELSE <<>>)
       \o column_values(col, r + 1, nrows)

\* The set `unique_values` that goes with `values`.
unique_of(values) == {unquote(Text(buf, values[k])) : k \in 1..Len(values)}

\* pred(s) for the predicate named pred.
call(pred, s) ==
  CASE pred = "is_bool" -> is_bool(s)
    [] pred = "is_currency" -> is_currency(s)
    [] pred = "is_date" -> is_date(s)
    [] pred = "is_int64" -> is_int64(s)
    [] pred = "is_float64" -> is_float64(s)

all_match(values, pred) ==
  \A k \in 1..Len(values) : call(pred, unquote(Text(buf, values[k])))

\* Mutant of Max: the second argument is ignored.
Max_first_only(a, b) == a

Max(a, b) == IF a > b THEN a ELSE b

\* Mutant of detect_type: Int64 is tried before Bool.
detect_type_int_first(values) ==
  IF all_match(values, "is_int64") THEN "Int64"
  ELSE IF all_match(values, "is_bool") THEN "Bool"
  ELSE IF all_match(values, "is_currency") THEN "Currency"
  ELSE IF all_match(values, "is_date") THEN "Date"
  ELSE IF all_match(values, "is_float64") THEN "Float64"
  ELSE IF Cardinality(unique_of(values)) < Max(2, Len(values) \div 10) THEN "Enum"
  ELSE "Text"

\* The if chain that sets `detected`.
detect_type(values) ==
  IF all_match(values, "is_bool") THEN "Bool"
  ELSE IF all_match(values, "is_currency") THEN "Currency"
  ELSE IF all_match(values, "is_date") THEN "Date"
  ELSE IF all_match(values, "is_int64") THEN "Int64"
  ELSE IF all_match(values, "is_float64") THEN "Float64"
  ELSE IF Cardinality(unique_of(values)) < Max(2, Len(values) \div 10) THEN "Enum"
  ELSE "Text"

\* infer_schema(reader, size) on the reader of the state.
infer_schema(size) ==
  LET nrows == Min(parsed_rows_, size)
  IN [c \in 1..ncols_ |->
        [name |-> unquote(Text(buf, headers_[c])),
         type |-> IF nrows = 0 THEN "Text"
                  ELSE IF column_values(c - 1, 0, nrows) = <<>> THEN "Text"
                  ELSE detect_type(column_values(c - 1, 0, nrows))]]

\* The raw cells the tables handed to infer_schema are made of.
CellValues ==
  { <<>>, <<"1">>, <<"0">>, <<"1", "0">>, <<"2", ".", "5">>, <<"-", "3">>,
    <<"1", "e", "5">>, <<"1", ".">>, <<".">>, <<"x">>,
    <<"t", "r", "u", "e">>, <<"Y", "E", "S">>,
    <<"$", "5">>, <<QUOTE, "$", "1", ",", "0", QUOTE>>, <<"C2", "A3", "5">>,
    <<"2", "0", "2", "4", "-", "0", "1", "-", "1", "5">>,
    <<"0", "1", "/", "1", "5", "/", "2", "0", "2", "4">>,
    <<QUOTE, "7", QUOTE>>, <<QUOTE, QUOTE>> }

\* A two-column file: the header k,v and one line x,<cell> per cell.
RECURSIVE csv_of(_)
csv_of(cells) ==
  IF cells = <<>> THEN <<>>
  ELSE <<"x", ",">> \o Head(cells) \o <<NL>> \o csv_of(Tail(cells))

InitInfer ==
  /\ \E cells \in BoundedSeq(CellValues, MaxInferRows) :
       Constructed(<<"k", ",", "v", NL>> \o csv_of(cells))
  /\ sample_size = 0
  /\ schema = <<>>
  /\ infer_pc = "start"
  /\ FieldIdle
  /\ DelimIdle
  /\ QueryIdle
  /\ LifeIdle
  /\ RestIdle

\* The table is parsed before its schema is inferred.
ParseTable ==
  /\ infer_pc = "start"
  /\ last_call.op = "none"
  /\ Parse(",")

InferSchema(size) ==
  /\ infer_pc = "start"
  /\ last_call.op # "none"
  /\ sample_size' = size
  /\ schema' = infer_schema(size)
  /\ infer_pc' = "inferred"
  /\ UNCHANGED <<readerVars, fieldVars, delimVars, queryVars, lifeVars, restVars>>

NextInfer ==
  \/ ParseTable
  \/ \E size \in {0, 1, DefaultSampleSize} : InferSchema(size)

SpecInfer == InitInfer /\ [][NextInfer]_vars

\* ---- notions the claims about the inferencer are stated with

\* The sampled non-empty values of column col (0-based), unquoted.
sampled_values(col) ==
  {unquote(Text(buf, row(r)[col + 1])) : r \in 0..(Min(parsed_rows_, sample_size) - 1)}
    \ {<<>>}

TypedOrder == <<"Bool", "Currency", "Date", "Int64", "Float64">>

\* The predicate that goes with each type of TypedOrder.
predicate_of(type) ==
  CASE type = "Bool" -> "is_bool"
    [] type = "Currency" -> "is_currency"
    [] type = "Date" -> "is_date"
    [] type = "Int64" -> "is_int64"
    [] type = "Float64" -> "is_float64"

\* Every sampled non-empty value of the column satisfies the predicate of type.
column_is(col, type) == \A v \in sampled_values(col) : call(predicate_of(type), v)

\* C9: a column with at least one sampled non-empty value gets the first type
\* in the order Bool, Currency, Date, Int64, Float64 whose predicate holds
\* for every sampled non-empty value.
C9_FirstMatchingType ==
  infer_pc = "inferred" =>
    \A col \in 0..(ncols_ - 1) :
      sampled_values(col) # {} =>
        \A k \in 1..Len(TypedOrder) :
          ( /\ column_is(col, TypedOrder[k])
            /\ \A j \in 1..(k - 1) : ~column_is(col, TypedOrder[j]) )
          => schema[col + 1].type = TypedOrder[k]

\* C9 witness: a column of the values 1 and 0, which are integers too, is Bool.
C9_Witness ==
  /\ infer_pc = "inferred"
  /\ ncols_ = 2
  /\ sampled_values(1) = {<<"1">>, <<"0">>}
  /\ column_is(1, "Int64")
  /\ schema[2].type = "Bool"

\* An optional sign, then digits with at most one decimal point and at least
\* one digit, then possibly an exponent: e or E, an optional sign, digits.
number_shape(v) ==
  \E m \in 1..Len(v) :
    LET first == IF v[1] \in {"-", "+"} THEN 2 ELSE 1
        mantissa == SubSeq(v, first, m)
        exponent == SubSeq(v, m + 1, Len(v))
    IN /\ \A k \in 1..Len(mantissa) : mantissa[k] \in Digits \cup {"."}
       /\ Cardinality({k \in 1..Len(mantissa) : mantissa[k] = "."}) <= 1
       /\ \E k \in 1..Len(mantissa) : mantissa[k] \in Digits
       /\ \/ exponent = <<>>
          \/ /\ exponent[1] \in {"e", "E"}
             /\ LET digits == IF Len(exponent) >= 2 /\ exponent[2] \in {"-", "+"}
                              THEN SubSeq(exponent, 3, Len(exponent))
                              ELSE SubSeq(exponent, 2, Len(exponent))
                IN digits # <<>> /\ \A k \in 1..Len(digits) : digits[k] \in Digits

\* C10: a column that is not Bool, Currency, Date or Int64 and whose sampled
\* non-empty values all have the shape of a number is Float64.
C10_NumbersAreFloat64 ==
  infer_pc = "inferred" =>
    \A col \in 0..(ncols_ - 1) :
      ( /\ sampled_values(col) # {}
        /\ \A k \in 1..4 : ~column_is(col, TypedOrder[k])
        /\ \A v \in sampled_values(col) : number_shape(v) )
      => schema[col + 1].type = "Float64"

\* ------------------------------------------------- infer_schema, long tables

MaxEnumRows == 31   \* most data rows of a long table
MaxCycle == 3       \* longest repeating pattern of cells in a long table

\* The raw cells of a long table: untyped, typed and empty ones.
EnumCells == {<<>>, <<"a">>, <<"b">>, <<"1">>}

\* The cells of an n-row table whose column repeats the cells of cycle.
cycled(cycle, n) == [i \in 1..n |-> cycle[((i - 1) % Len(cycle)) + 1]]

InitEnum ==
  /\ \E n \in 0..MaxEnumRows :
       \E cycle \in BoundedSeq(EnumCells, MaxCycle) \ {<<>>} :
         Constructed(<<"k", ",", "v", NL>> \o csv_of(cycled(cycle, n)))
  /\ sample_size = 0
  /\ schema = <<>>
  /\ infer_pc = "start"
  /\ FieldIdle
  /\ DelimIdle
  /\ QueryIdle
  /\ LifeIdle
  /\ RestIdle

SpecEnum == InitEnum /\ [][NextInfer]_vars

\* The number N of sampled non-empty values of column col (0-based).
sampled_count(col) ==
  Cardinality({r \in 0..(Min(parsed_rows_, sample_size) - 1) :
                 unquote(Text(buf, row(r)[col + 1])) # <<>>})

\* No typed predicate holds for every sampled non-empty value of the column.
untyped(col) == \A k \in 1..Len(TypedOrder) : ~column_is(col, TypedOrder[k])

\* C11: a column with no sampled non-empty value is Text; a column with N > 0
\* sampled non-empty values for which no typed predicate holds throughout is
\* Enum exactly when its distinct non-empty values are fewer than
\* max(2, N / 10) (integer division), and Text otherwise.
C11_EnumRule ==
  infer_pc = "inferred" =>
    \A col \in 0..(ncols_ - 1) :
      /\ sampled_count(col) = 0 => schema[col + 1].type = "Text"
      /\ (sampled_count(col) > 0 /\ untyped(col)) =>
           /\ schema[col + 1].type \in {"Enum", "Text"}
           \* d < max(2, N / 10) iff d < 2 or N >= 10 * (d + 1)
           /\ schema[col + 1].type = "Enum" <=>
                \/ Cardinality(sampled_values(col)) < 2
                \/ 10 * Cardinality(sampled_values(col)) + 9 < sampled_count(col)

\* C11 witness: two distinct values among at least 30 sampled ones make an
\* Enum column (N / 10 decides), and one value short of that a Text column.
C11_Witness ==
  /\ infer_pc = "inferred"
  /\ ncols_ = 2
  /\ untyped(1)
  /\ Cardinality(sampled_values(1)) = 2
  /\ sampled_count(1) >= 30
  /\ schema[2].type = "Enum"

\* -------------------------------------------------------------- parse_filter

MaxParts == 4       \* most pieces an expression handed to parse_filter is made of

SPACE == " "
BACKSLASH == "\\"

RECURSIVE trim_front(_)
trim_front(s) == IF s # <<>> /\ Head(s) = SPACE THEN trim_front(Tail(s)) ELSE s

RECURSIVE trim_back(_)
trim_back(s) ==
  IF s # <<>> /\ s[Len(s)] = SPACE THEN trim_back(SubSeq(s, 1, Len(s) - 1)) ELSE s

trim(s) == trim_back(trim_front(s))

\* The tokens, in the order of the tables.
word_op_tokens ==
  << [token |-> <<"s", "t", "a", "r", "t", "s", "_", "w", "i", "t", "h">>, op |-> "StartsWith"],
     [token |-> <<"e", "n", "d", "s", "_", "w", "i", "t", "h">>, op |-> "EndsWith"],
     [token |-> <<"c", "o", "n", "t", "a", "i", "n", "s">>, op |-> "Contains"] >>

op_tokens ==
  << [token |-> <<">", "=">>, op |-> "Gte"], [token |-> <<"<", "=">>, op |-> "Lte"],
     [token |-> <<"!", "=">>, op |-> "Neq"], [token |-> <<"=", "=">>, op |-> "Eq"],
     [token |-> <<">">>, op |-> "Gt"], [token |-> <<"<">>, op |-> "Lt"] >>

\* The normalizing loop of parse_filter, from offset i on.
RECURSIVE normalize(_, _)
normalize(expr, i) ==
  IF i >= Len(expr) THEN <<>>
  ELSE IF At(expr, i) = BACKSLASH /\ i + 1 < Len(expr) /\ At(expr, i + 1) \in {"!", ">", "<", "="}
       THEN <<At(expr, i + 1)>> \o normalize(expr, i + 2)
       ELSE <<At(expr, i)>> \o normalize(expr, i + 1)

\* std::string_view::find: the first offset at which needle occurs, NULL (npos) if none.
find(hay, needle) ==
  LET hits == {i \in 0..(Len(hay) - Len(needle)) : SubSeq(hay, i + 1, i + Len(needle)) = needle}
  IN IF hits = {} THEN NULL ELSE CHOOSE i \in hits : \A j \in hits : i <= j

\* substr(pos): the bytes from offset pos on.
substr_from(s, pos) == SubSeq(s, pos + 1, Len(s))

\* Mutant of split_at: empty sides are accepted.
split_at_unchecked(nexpr, pos, width, op) ==
  [kind |-> "Filter", column |-> trim(SubSeq(nexpr, 1, pos)), op |-> op,
   value |-> trim(substr_from(nexpr, pos + width))]

\* The body of both token loops once the token is found at pos.
split_at(nexpr, pos, width, op) ==
  LET col == trim(SubSeq(nexpr, 1, pos))
      val == trim(substr_from(nexpr, pos + width))
  IN IF col = <<>> \/ val = <<>>
     THEN [kind |-> "runtime_error", what |-> "column and value required"]
     ELSE [kind |-> "Filter", column |-> col, op |-> op, value |-> val]

\* The loop over op_tokens, from entry k on.
RECURSIVE symbolic_loop(_, _)
symbolic_loop(nexpr, k) ==
  IF k > Len(op_tokens)
  THEN [kind |-> "runtime_error", what |-> "No valid operator found"]
  ELSE IF find(nexpr, op_tokens[k].token) # NULL
       THEN split_at(nexpr, find(nexpr, op_tokens[k].token), Len(op_tokens[k].token),
                     op_tokens[k].op)
       ELSE symbolic_loop(nexpr, k + 1)

\* Mutant of word_loop: the word operators are never looked for.
word_loop_skipped(nexpr, k) == symbolic_loop(nexpr, 1)

\* The loop over word_op_tokens, from entry k on, and what follows it.
RECURSIVE word_loop(_, _)
word_loop(nexpr, k) ==
  IF k > Len(word_op_tokens) THEN symbolic_loop(nexpr, 1)
  ELSE LET search == <<SPACE>> \o word_op_tokens[k].token \o <<SPACE>>
       IN IF find(nexpr, search) # NULL
          THEN split_at(nexpr, find(nexpr, search), Len(search), word_op_tokens[k].op)
          ELSE word_loop(nexpr, k + 1)

parse_filter(expr) ==
  IF trim(expr) = <<>>
  THEN [kind |-> "runtime_error", what |-> "Empty filter expression"]
  ELSE word_loop(normalize(trim(expr), 0), 1)

\* What expressions are made of.
FilterPieces ==
  { <<"a">>, <<SPACE>>, <<">">>, <<"<">>, <<"=">>, <<"!">>, <<BACKSLASH>>,
    <<SPACE>> \o word_op_tokens[1].token \o <<SPACE>>,
    <<SPACE>> \o word_op_tokens[2].token \o <<SPACE>>,
    <<SPACE>> \o word_op_tokens[3].token \o <<SPACE>>,
    word_op_tokens[3].token }

RECURSIVE concat(_)
concat(parts) == IF parts = <<>> THEN <<>> ELSE Head(parts) \o concat(Tail(parts))

InitFilter ==
  /\ \E parts \in BoundedSeq(FilterPieces, MaxParts) : filter_expr = concat(parts)
  /\ filter_res = NoResult
  /\ q_call = [op |-> "none"]
  /\ q_res = NoResult
  /\ indices = <<>>
  /\ ReaderIdle
  /\ FieldIdle
  /\ DelimIdle
  /\ InferIdle
  /\ LifeIdle
  /\ RestIdle

ParseFilter ==
  /\ filter_res = NoResult
  /\ filter_res' = parse_filter(filter_expr)
  /\ UNCHANGED <<filter_expr, q_call, q_res, indices, readerVars, fieldVars, delimVars, inferVars, lifeVars, restVars>>

NextFilter == ParseFilter

SpecFilter == InitFilter /\ [][NextFilter]_vars

\* ---- notions the claims about parse_filter are stated with

\* The operators in their priority: the space-delimited words, then the symbols.
PriorityTokens ==
  << [token |-> <<" ", "s", "t", "a", "r", "t", "s", "_", "w", "i", "t", "h", " ">>, op |-> "StartsWith"],
     [token |-> <<" ", "e", "n", "d", "s", "_", "w", "i", "t", "h", " ">>, op |-> "EndsWith"],
     [token |-> <<" ", "c", "o", "n", "t", "a", "i", "n", "s", " ">>, op |-> "Contains"],
     [token |-> <<">", "=">>, op |-> "Gte"], [token |-> <<"<", "=">>, op |-> "Lte"],
     [token |-> <<"!", "=">>, op |-> "Neq"], [token |-> <<"=", "=">>, op |-> "Eq"],
     [token |-> <<">">>, op |-> "Gt"], [token |-> <<"<">>, op |-> "Lt"] >>

\* The 1-based positions at which tok occurs in e.
occurrences(e, tok) ==
  {i \in 1..(Len(e) - Len(tok) + 1) : SubSeq(e, i, i + Len(tok) - 1) = tok}

\* The rank of the operator of highest priority occurring in e, 0 if none does.
chosen(e) ==
  LET occurs == [k \in 1..Len(PriorityTokens) |-> occurrences(e, PriorityTokens[k].token) # {}]
  IN IF \A k \in 1..Len(PriorityTokens) : ~occurs[k] THEN 0
     ELSE CHOOSE k \in 1..Len(PriorityTokens) : occurs[k] /\ \A j \in 1..(k - 1) : ~occurs[j]

\* What the priority rule makes of e: the operator of highest priority
\* occurring in e, and the trimmed text before and after its first occurrence.
by_priority(e) ==
  LET k == chosen(e)
  IN IF k = 0 THEN [op |-> "none", column |-> <<>>, value |-> <<>>, at |-> 0]
     ELSE LET tok == PriorityTokens[k].token
              at == occurrences(e, tok)
              i == CHOOSE i \in at : \A j \in at : i <= j
          IN [op |-> PriorityTokens[k].op, column |-> trim(SubSeq(e, 1, i - 1)),
              value |-> trim(SubSeq(e, i + Len(tok), Len(e))), at |-> i]

\* The rule gives split an operator with a non-empty column and value.
well_formed(split) == split.op # "none" /\ split.column # <<>> /\ split.value # <<>>

\* res is the Filter of split.
filter_of(res, split) ==
  /\ res.kind = "Filter"
  /\ res.op = split.op
  /\ res.column = split.column
  /\ res.value = split.value

\* The expression as parse_filter searches it: trimmed, and with the backslash
\* before !, >, < or = dropped.
searched_expr == normalize(trim(filter_expr), 0)

\* C12 (amended): a returned Filter is the one the priority rule gives for the
\* trimmed expression with the backslash before !, >, < or = dropped, and
\* every such expression with an operator and non-empty sides yields it.
C12_OperatorPriority ==
  filter_res.kind # "none" =>
    LET split == by_priority(searched_expr)
    IN /\ filter_res.kind = "Filter" => filter_of(filter_res, split)
       /\ well_formed(split) => filter_of(filter_res, split)

\* C12 witness: a word operator is picked although a symbolic one occurs too,
\* and among two word operators the one of higher priority although it comes later.
C12_Witness ==
  /\ filter_res.kind = "Filter"
  /\ filter_res.op = "StartsWith"
  /\ \E i \in occurrences(searched_expr, PriorityTokens[2].token) :
       i < by_priority(searched_expr).at
  /\ occurrences(searched_expr, <<">">>) # {}

\* C12 as stated: the priority rule applied to the trimmed expression itself.
C12_OperatorPriorityAsStated ==
  filter_res.kind # "none" =>
    LET split == by_priority(trim(filter_expr))
    IN /\ filter_res.kind = "Filter" => filter_of(filter_res, split)
       /\ well_formed(split) => filter_of(filter_res, split)

\* C13 (amended): parse_filter throws, returning no Filter, exactly when the
\* expression is empty after trimming, or, the backslash before !, >, < or =
\* dropped, has no operator or an empty column or value side after trimming;
\* every other expression yields a Filter with non-empty column and value.
C13_ParseErrorIff ==
  filter_res.kind # "none" =>
    LET split == by_priority(searched_expr)
    IN /\ filter_res.kind \in {"Filter", "runtime_error"}
       /\ filter_res.kind = "runtime_error" <=>
            \/ trim(filter_expr) = <<>>
            \/ split.op = "none"
            \/ split.column = <<>>
            \/ split.value = <<>>
       /\ filter_res.kind = "Filter" => filter_res.column # <<>> /\ filter_res.value # <<>>

\* C13 witness: an operator is there but the column side is empty, and the
\* call throws.
C13_Witness ==
  /\ filter_res.kind = "runtime_error"
  /\ trim(filter_expr) # <<>>
  /\ by_priority(searched_expr).op # "none"
  /\ by_priority(searched_expr).column = <<>>
  /\ by_priority(searched_expr).value # <<>>

\* C13 as stated: the three conditions taken on the trimmed expression itself.
C13_ParseErrorIffAsStated ==
  filter_res.kind # "none" =>
    LET split == by_priority(trim(filter_expr))
    IN /\ filter_res.kind \in {"Filter", "runtime_error"}
       /\ filter_res.kind = "runtime_error" <=>
            \/ trim(filter_expr) = <<>>
            \/ split.op = "none"
            \/ split.column = <<>>
            \/ split.value = <<>>
       /\ filter_res.kind = "Filter" => filter_res.column # <<>> /\ filter_res.value # <<>>

\* ------------------------------------------------- the query layer: compares

\* The bytes the query layer meets, in increasing byte value.
ByteOrder ==
  << SPACE, "!", QUOTE, "$", "+", ",", "-", ".", "/",
     "0", "1", "2", "3", "4", "5", "6", "7", "8", "9", "<", "=", ">",
     "A", "B", "E", "K", "V", "X", "Z", BACKSLASH, "a", "b", "e", "k", "v", "x", "z" >>

\* The rank of byte c in ByteOrder: what the comparisons of chars go by.
byte_rank(c) == CHOOSE k \in 1..Len(ByteOrder) : ByteOrder[k] = c

\* std::string operator<: lexicographic on the bytes, a proper prefix first.
RECURSIVE string_lt(_, _)
string_lt(a, b) ==
  IF b = <<>> THEN FALSE
  ELSE IF a = <<>> THEN TRUE
  ELSE IF Head(a) # Head(b) THEN byte_rank(Head(a)) < byte_rank(Head(b))
  ELSE string_lt(Tail(a), Tail(b))

\* to_lower of filter.cpp: every byte lowered.
filter_to_lower(s) == [k \in 1..Len(s) |-> to_lower(s[k])]

\* Mutant of compare_strings: case is never folded.
compare_strings_case_kept(cell, op, value, ci) ==
  CASE op = "Eq" -> cell = value
    [] op = "Neq" -> cell # value
    [] op = "Gt" -> string_lt(value, cell)
    [] op = "Lt" -> string_lt(cell, value)
    [] op = "Gte" -> ~string_lt(cell, value)
    [] op = "Lte" -> ~string_lt(value, cell)
    [] op = "Contains" -> find(cell, value) # NULL
    [] op = "StartsWith" -> Len(cell) >= Len(value) /\ SubSeq(cell, 1, Len(value)) = value
    [] op = "EndsWith" ->
         Len(cell) >= Len(value) /\ SubSeq(cell, Len(cell) - Len(value) + 1, Len(cell)) = value

compare_strings(cell, op, value, ci) ==
  LET a == IF ci THEN filter_to_lower(cell) ELSE cell
      b == IF ci THEN filter_to_lower(value) ELSE value
  IN CASE op = "Eq" -> a = b
       [] op = "Neq" -> a # b
       [] op = "Gt" -> string_lt(b, a)
       [] op = "Lt" -> string_lt(a, b)
       [] op = "Gte" -> ~string_lt(a, b)
       [] op = "Lte" -> ~string_lt(b, a)
       [] op = "Contains" -> find(a, b) # NULL
       [] op = "StartsWith" -> Len(a) >= Len(b) /\ SubSeq(a, 1, Len(b)) = b
       [] op = "EndsWith" -> Len(a) >= Len(b) /\ SubSeq(a, Len(a) - Len(b) + 1, Len(a)) = b

\* The value of a decimal digit.
digit_value(c) == byte_rank(c) - byte_rank("0")

\* How many digits s has from offset i on.
RECURSIVE digits_run(_, _)
digits_run(s, i) == IF i < Len(s) /\ At(s, i) \in Digits THEN 1 + digits_run(s, i + 1) ELSE 0

\* The number written by the n digits of s from offset i on, after acc.
RECURSIVE digits_number(_, _, _, _)
digits_number(s, i, n, acc) ==
  IF n = 0 THEN acc ELSE digits_number(s, i + 1, n - 1, 10 * acc + digit_value(At(s, i)))

\* Where the leading white space of s ends.
RECURSIVE skip_space(_, _)
skip_space(s, i) == IF i < Len(s) /\ At(s, i) = SPACE THEN skip_space(s, i + 1) ELSE i

\* std::stod, the exponent: nexp digits from offset i3 on, negated by eneg.
stod_exponent(s, m, nfrac, eneg, i3, nexp) ==
  [ok |-> TRUE, m |-> m,
   e |-> (IF nexp = 0 THEN 0
          ELSE IF eneg THEN 0 - digits_number(s, i3, nexp, 0)
          ELSE digits_number(s, i3, nexp, 0)) - nfrac]

\* std::stod behind the mantissa m, which ended at offset i2 with nfrac
\* digits behind the point: an 'e' or 'E', a sign and digits may follow.
stod_tail(s, m, nfrac, i2) ==
  IF i2 < Len(s) /\ At(s, i2) \in {"e", "E"}
  THEN (IF i2 + 1 < Len(s) /\ At(s, i2 + 1) \in {"-", "+"}
        THEN stod_exponent(s, m, nfrac, At(s, i2 + 1) = "-", i2 + 2, digits_run(s, i2 + 2))
        ELSE stod_exponent(s, m, nfrac, FALSE, i2 + 1, digits_run(s, i2 + 1)))
  ELSE [ok |-> TRUE, m |-> m, e |-> 0 - nfrac]

\* std::stod, the mantissa: nint digits from offset i1 on, then nfrac digits
\* behind a point if point holds; it throws when there is no digit at all.
stod_mantissa(s, neg, i1, nint, point, nfrac) ==
  IF nint + nfrac = 0 THEN [ok |-> FALSE, m |-> 0, e |-> 0]
  ELSE IF point
  THEN stod_tail(s,
                 (IF neg THEN -1 ELSE 1)
                   * digits_number(s, i1 + nint + 1, nfrac, digits_number(s, i1, nint, 0)),
                 nfrac, i1 + nint + 1 + nfrac)
  ELSE stod_tail(s, (IF neg THEN -1 ELSE 1) * digits_number(s, i1, nint, 0), 0, i1 + nint)

\* std::stod, the digits before the point: nint of them from offset i1 on.
stod_digits(s, neg, i1, nint) ==
  IF i1 + nint < Len(s) /\ At(s, i1 + nint) = "."
  THEN stod_mantissa(s, neg, i1, nint, TRUE, digits_run(s, i1 + nint + 1))
  ELSE stod_mantissa(s, neg, i1, nint, FALSE, 0)

\* std::stod behind the white space, which ended at offset i0: the sign.
stod_sign(s, i0) ==
  IF i0 < Len(s) /\ At(s, i0) \in {"-", "+"}
  THEN stod_digits(s, At(s, i0) = "-", i0 + 1, digits_run(s, i0 + 1))
  ELSE stod_digits(s, FALSE, i0, digits_run(s, i0))

\* std::stod on the bytes ByteOrder has: the longest leading decimal number
\* (white space, sign, digits with an optional point, an optional exponent)
\* as the pair m, e standing for m * 10^e; ok is FALSE when it throws because
\* no digit is there.  What follows the number is ignored.  The hexadecimal,
\* infinity and NaN forms need bytes no explored cell or literal has.
stod(s) == stod_sign(s, skip_space(s, 0))

\* The bytes of s that are neither '$' nor ','.
RECURSIVE cleaned(_)
cleaned(s) ==
  IF s = <<>> THEN <<>>
  ELSE (IF Head(s) \in {"$", ","} THEN <<>> ELSE <<Head(s)>>) \o cleaned(Tail(s))

\* ok is FALSE when std::stod throws.
parse_numeric(s) == stod(cleaned(s))

is_numeric_type(t) == t \in {"Int64", "Float64", "Currency"}

RECURSIVE pow10(_)
pow10(n) == IF n = 0 THEN 1 ELSE 10 * pow10(n - 1)

\* x < y and x == y for two doubles given as m * 10^e.
double_lt(x, y) ==
  LET lo == Min(x.e, y.e) IN x.m * pow10(x.e - lo) < y.m * pow10(y.e - lo)
double_eq(x, y) ==
  LET lo == Min(x.e, y.e) IN x.m * pow10(x.e - lo) = y.m * pow10(y.e - lo)

compare_numeric(cell_val, op, filter_val) ==
  CASE op = "Eq" -> double_eq(cell_val, filter_val)
    [] op = "Neq" -> ~double_eq(cell_val, filter_val)
    [] op = "Gt" -> double_lt(filter_val, cell_val)
    [] op = "Lt" -> double_lt(cell_val, filter_val)
    [] op = "Gte" -> ~double_lt(cell_val, filter_val)
    [] op = "Lte" -> ~double_lt(filter_val, cell_val)
    [] op \in {"Contains", "StartsWith", "EndsWith"} -> FALSE

\* ------------------------------------------------------------ apply_filters

\* reader.headers(), unquoted.
header_names == [i \in 1..Len(headers_) |-> unquote(Text(buf, headers_[i]))]

\* The inner for loop of the resolution: the first header from i on whose
\* (folded) name is f_col, NULL when found stays false.
RECURSIVE af_lookup(_, _, _)
af_lookup(f_col, ci, i) ==
  IF i >= Len(headers_) THEN NULL
  ELSE IF (IF ci THEN filter_to_lower(header_names[i + 1]) ELSE header_names[i + 1]) = f_col
       THEN i
       ELSE af_lookup(f_col, ci, i + 1)

\* The exception of an unresolved column: the name and the headers listed.
not_found(what, column) ==
  [kind |-> "runtime_error", what |-> what, column |-> column, available |-> header_names]

\* Mutant of af_resolve: a filter whose column is not found is left out.
RECURSIVE af_resolve_skipping(_, _, _, _, _)
af_resolve_skipping(filters, sch, ci, k, resolved) ==
  IF k > Len(filters) THEN [kind |-> "resolved", resolved |-> resolved]
  ELSE LET f == filters[k]
           i == af_lookup(IF ci THEN filter_to_lower(f.column) ELSE f.column, ci, 0)
       IN IF i = NULL THEN af_resolve_skipping(filters, sch, ci, k + 1, resolved)
          ELSE af_resolve_skipping(filters, sch, ci, k + 1,
                          Append(resolved,
                                 [filter |-> f, col_idx |-> i,
                                  col_type |-> IF i < Len(sch) THEN sch[i + 1].type ELSE "Text"]))

\* The outer for loop of the resolution, from filter k on.
RECURSIVE af_resolve(_, _, _, _, _)
af_resolve(filters, sch, ci, k, resolved) ==
  IF k > Len(filters) THEN [kind |-> "resolved", resolved |-> resolved]
  ELSE LET f == filters[k]
           i == af_lookup(IF ci THEN filter_to_lower(f.column) ELSE f.column, ci, 0)
       IN IF i = NULL THEN not_found("Column not found", f.column)
          ELSE af_resolve(filters, sch, ci, k + 1,
                          Append(resolved,
                                 [filter |-> f, col_idx |-> i,
                                  col_type |-> IF i < Len(sch) THEN sch[i + 1].type ELSE "Text"]))

\* The try block of row_matches once both texts went through parse_numeric:
\* the comparison by number, or the fall through to compare_strings when
\* either call threw.
numeric_matches(cell_str, filter, cell_val, filter_val, ci) ==
  IF cell_val.ok /\ filter_val.ok
  THEN compare_numeric(cell_val, filter.op, filter_val)
  ELSE compare_strings(cell_str, filter.op, filter.value, ci)

\* row_matches from cell_str on.
cell_matches(cell_str, filter, col_type, ci) ==
  IF is_numeric_type(col_type) /\ filter.op \notin {"Contains", "StartsWith", "EndsWith"}
  THEN numeric_matches(cell_str, filter, parse_numeric(cell_str), parse_numeric(filter.value), ci)
  ELSE compare_strings(cell_str, filter.op, filter.value, ci)

row_matches(r, filter, col_idx, col_type, ci) ==
  IF col_idx >= Len(r) THEN FALSE
  ELSE cell_matches(unquote(Text(buf, r[col_idx + 1])), filter, col_type, ci)

\* Mutant of af_match: OR is taken for AND.
af_match_always_and(r, resolved, ci, or_logic) ==
  \A k \in 1..Len(resolved) :
    row_matches(r, resolved[k].filter, resolved[k].col_idx, resolved[k].col_type, ci)

\* `match` for one row.
af_match(r, resolved, ci, or_logic) ==
  IF or_logic
  THEN \E k \in 1..Len(resolved) :
         row_matches(r, resolved[k].filter, resolved[k].col_idx, resolved[k].col_type, ci)
  ELSE \A k \in 1..Len(resolved) :
         row_matches(r, resolved[k].filter, resolved[k].col_idx, resolved[k].col_type, ci)

\* The loop over the rows, from row r on.
RECURSIVE af_rows(_, _, _, _)
af_rows(resolved, ci, or_logic, r) ==
  IF r >= parsed_rows_ THEN <<>>
  ELSE (IF af_match(row(r), resolved, ci, or_logic) THEN <<r>> ELSE <<>>)
       \o af_rows(resolved, ci, or_logic, r + 1)

apply_filters(filters, sch, case_insensitive, or_logic) ==
  LET res == af_resolve(filters, sch, case_insensitive, 1, <<>>)
  IN IF res.kind = "runtime_error" THEN res
     ELSE [kind |-> "indices", indices |-> af_rows(res.resolved, case_insensitive, or_logic, 0)]

MaxQueryRows == 2   \* most data rows of a table that is queried
MaxFilters == 2     \* most filters handed to apply_filters

\* The raw cells of column v of a queried table.
QueryCells == { <<>>, <<"1", "0">>, <<"9">>, <<"$", "9">>, <<"-">>, <<"9", "x">> }

\* The filters handed to apply_filters.
QueryFilters ==
  { [column |-> <<"v">>, op |-> "Gt", value |-> <<"9">>],
    [column |-> <<"v">>, op |-> "Eq", value |-> <<"$", "9">>],
    [column |-> <<"v">>, op |-> "Contains", value |-> <<"1">>],
    [column |-> <<"k">>, op |-> "Eq", value |-> <<"X">>] }

\* The sequences of at most n distinct elements of S.
DistinctSeq(S, n) == {q \in BoundedSeq(S, n) : \A i, j \in 1..Len(q) : q[i] = q[j] => i = j}

\* A file with the header K,v and one line x,<cell> per cell.
InitQuery ==
  /\ \E cells \in BoundedSeq(QueryCells, MaxQueryRows) :
       Constructed(<<"K", ",", "v", NL>> \o csv_of(cells))
  /\ sample_size = 0
  /\ schema = <<>>
  /\ infer_pc = "start"
  /\ FieldIdle
  /\ DelimIdle
  /\ QueryIdle
  /\ LifeIdle
  /\ RestIdle

\* The schema is inferred from the first row alone or from every row.
InferForQuery == \E size \in {1, DefaultSampleSize} : InferSchema(size)

ApplyFilters(filters, case_insensitive, or_logic) ==
  /\ infer_pc = "inferred"
  /\ q_call.op = "none"
  /\ q_call' = [op |-> "apply_filters", filters |-> filters,
                case_insensitive |-> case_insensitive, or_logic |-> or_logic]
  /\ q_res' = apply_filters(filters, schema, case_insensitive, or_logic)
  /\ UNCHANGED <<filter_expr, filter_res, indices, readerVars, fieldVars, delimVars, inferVars, lifeVars, restVars>>

\* ------------------------------------------------------------- sort_indices

\* The loop that resolves col_name: the first header from i on whose unquoted
\* name is name, NULL when there is none (col_idx stays SIZE_MAX, found false).
RECURSIVE exact_lookup(_, _)
exact_lookup(name, i) ==
  IF i >= Len(headers_) THEN NULL
  ELSE IF header_names[i + 1] = name THEN i
  ELSE exact_lookup(name, i + 1)

\* va, vb of the comparator: the unquoted cell of row a, "" for a short row.
sort_key(a, col_idx) ==
  IF col_idx < Len(row(a)) THEN unquote(Text(buf, row(a)[col_idx + 1])) ELSE <<>>

\* The comparator on va and vb once both went through parse_numeric: by
\* number, or as strings when either call threw.
sort_less_parsed(va, vb, da, db, descending) ==
  IF da.ok /\ db.ok
  THEN (IF descending THEN double_lt(db, da) ELSE double_lt(da, db))
  ELSE (IF descending THEN string_lt(vb, va) ELSE string_lt(va, vb))

\* The comparator from va and vb on.
sort_less_keys(va, vb, numeric, descending) ==
  IF numeric
  THEN sort_less_parsed(va, vb, parse_numeric(va), parse_numeric(vb), descending)
  ELSE (IF descending THEN string_lt(vb, va) ELSE string_lt(va, vb))

\* The comparator handed to std::stable_sort.
sort_less(a, b, col_idx, numeric, descending) ==
  sort_less_keys(sort_key(a, col_idx), sort_key(b, col_idx), numeric, descending)

\* The relation less, a table on the pairs of E, is a strict weak ordering.
is_strict_weak(E, less) ==
  /\ \A a \in E : ~less[a, a]
  /\ \A a, b, c \in E : (less[a, b] /\ less[b, c]) => less[a, c]
  /\ \A a, b, c \in E :
       (~less[a, b] /\ ~less[b, a] /\ ~less[b, c] /\ ~less[c, b]) => (~less[a, c] /\ ~less[c, a])

\* The comparator as a table on the pairs of E.
less_on(E, col_idx, numeric, descending) ==
  [a \in E, b \in E |-> sort_less(a, b, col_idx, numeric, descending)]

\* The elements of q.
elements(q) == {q[i] : i \in 1..Len(q)}

\* What std::stable_sort requires of its comparator on the elements of q: a
\* strict weak ordering.
strict_weak(q, col_idx, numeric, descending) ==
  is_strict_weak(elements(q), less_on(elements(q), col_idx, numeric, descending))

\* x put into the sorted sequence behind every element it is not less than.
RECURSIVE insert_stable(_, _, _, _, _)
insert_stable(sorted, x, col_idx, numeric, descending) ==
  IF sorted # <<>> /\ sort_less(x, sorted[Len(sorted)], col_idx, numeric, descending)
  THEN Append(insert_stable(SubSeq(sorted, 1, Len(sorted) - 1), x, col_idx, numeric, descending),
              sorted[Len(sorted)])
  ELSE Append(sorted, x)

\* The stable sort of q under a strict weak ordering.
RECURSIVE stable_sorted(_, _, _, _)
stable_sorted(q, col_idx, numeric, descending) ==
  IF q = <<>> THEN <<>>
  ELSE insert_stable(stable_sorted(SubSeq(q, 1, Len(q) - 1), col_idx, numeric, descending),
                     q[Len(q)], col_idx, numeric, descending)

\* The rearrangements of q.
rearrangements(q) == {[i \in 1..Len(q) |-> q[f[i]]] : f \in Permutations(1..Len(q))}

\* What std::stable_sort may leave in the vector: the stable sort when the
\* comparator is a strict weak ordering; otherwise its behaviour is undefined
\* and any rearrangement may come out.
stable_sort(q, col_idx, numeric, descending) ==
  IF strict_weak(q, col_idx, numeric, descending)
  THEN {stable_sorted(q, col_idx, numeric, descending)}
  ELSE rearrangements(q)

\* sort_indices: the exception thrown, or the possible contents of indices.
sort_indices(q, sch, col_name, descending) ==
  LET col_idx == exact_lookup(col_name, 0)
      col_type == IF col_idx # NULL /\ col_idx < Len(sch) THEN sch[col_idx + 1].type ELSE "Text"
  IN IF col_idx = NULL
     THEN [res |-> not_found("Sort column not found", col_name), outcomes |-> {q}]
     ELSE [res |-> [kind |-> "void"],
           outcomes |-> stable_sort(q, col_idx, is_numeric_type(col_type), descending)]

\* ---------------------------------------------------------- resolve_columns

\* std::getline(ss, token, ',') until it fails: the tokens of s.
RECURSIVE getline_tokens(_)
getline_tokens(s) ==
  IF s = <<>> THEN <<>>
  ELSE IF find(s, <<",">>) = NULL THEN <<s>>
  ELSE <<SubSeq(s, 1, find(s, <<",">>))>> \o getline_tokens(substr_from(s, find(s, <<",">>) + 1))

\* Mutant of rc_loop: each index is put in front of those found before.
RECURSIVE rc_loop_reversed(_, _, _)
rc_loop_reversed(tokens, k, found) ==
  IF k > Len(tokens) THEN [kind |-> "indices", indices |-> found]
  ELSE IF trim(tokens[k]) = <<>> THEN rc_loop_reversed(tokens, k + 1, found)
  ELSE IF exact_lookup(trim(tokens[k]), 0) = NULL
       THEN not_found("Column not found", trim(tokens[k]))
  ELSE rc_loop_reversed(tokens, k + 1, <<exact_lookup(trim(tokens[k]), 0)>> \o found)

\* The while loop of resolve_columns, from token k on; the token is cut to
\* what lies between its first and last byte that is not a space.
RECURSIVE rc_loop(_, _, _)
rc_loop(tokens, k, found) ==
  IF k > Len(tokens) THEN [kind |-> "indices", indices |-> found]
  ELSE IF trim(tokens[k]) = <<>> THEN rc_loop(tokens, k + 1, found)
  ELSE IF exact_lookup(trim(tokens[k]), 0) = NULL
       THEN not_found("Column not found", trim(tokens[k]))
  ELSE rc_loop(tokens, k + 1, Append(found, exact_lookup(trim(tokens[k]), 0)))

resolve_columns(select_str) ==
  LET res == rc_loop(getline_tokens(select_str), 1, <<>>)
  IN IF res.kind = "indices" /\ res.indices = <<>>
     THEN [kind |-> "runtime_error", what |-> "No valid columns in --select",
           column |-> <<>>, available |-> <<>>]
     ELSE res

\* ------------------------------------------------------- the queries, called

\* 0, 1, ..., n - 1 and the same backwards.
iota(n) == [i \in 1..n |-> i - 1]
reversed(q) == [i \in 1..Len(q) |-> q[Len(q) + 1 - i]]

\* The column names handed to sort_indices.
SortColumns == { <<"v">>, <<"K">>, <<"k">> }

\* The select expressions handed to resolve_columns.
SelectStrings ==
  { <<>>, <<SPACE>>, <<",">>, <<"v">>, <<"v", ",">>, <<"K", ",", "v">>, <<"v", ",", "K">>,
    <<SPACE, "v", SPACE, ",", SPACE, "K">>, <<"v", ",", ",", "K">>, <<"v", ",", "v">>,
    <<"v", ",", "k">>, <<"k", ",", "v">>, <<"z">> }

SortIndices(input, col_name, descending) ==
  /\ infer_pc = "inferred"
  /\ q_call.op = "none"
  /\ q_call' = [op |-> "sort_indices", indices |-> input, col_name |-> col_name,
                descending |-> descending]
  /\ \E r \in {sort_indices(input, schema, col_name, descending)} :
       /\ q_res' = r.res
       /\ indices' \in r.outcomes
  /\ UNCHANGED <<filter_expr, filter_res, readerVars, fieldVars, delimVars, inferVars, lifeVars, restVars>>

ResolveColumns(select_str) ==
  /\ last_call.op # "none"
  /\ q_call.op = "none"
  /\ q_call' = [op |-> "resolve_columns", select_str |-> select_str]
  /\ q_res' = resolve_columns(select_str)
  /\ UNCHANGED <<filter_expr, filter_res, indices, readerVars, fieldVars, delimVars, inferVars, lifeVars, restVars>>

\* A sort of all rows, in file order or backwards.
SortAll ==
  \E input \in {iota(parsed_rows_), reversed(iota(parsed_rows_))},
     col_name \in SortColumns, descending \in BOOLEAN :
    SortIndices(input, col_name, descending)

NextQuery ==
  \/ ParseTable
  \/ InferForQuery
  \/ \E filters \in DistinctSeq(QueryFilters, MaxFilters), ci \in BOOLEAN, or_logic \in BOOLEAN :
       ApplyFilters(filters, ci, or_logic)
  \/ SortAll
  \/ \E select_str \in SelectStrings : ResolveColumns(select_str)

SpecQuery == InitQuery /\ [][NextQuery]_vars

\* ---- notions the claims about apply_filters are stated with

\* The name a column name is matched by: folded when case is ignored.
folded(name, ci) == IF ci THEN filter_to_lower(name) ELSE name

\* The 0-based indices of the headers whose unquoted name matches name.
headers_matching(name, ci) ==
  {i \in 0..(Len(headers_) - 1) : folded(header_names[i + 1], ci) = folded(name, ci)}

\* The first header matching name.
header_index(name, ci) ==
  CHOOSE i \in headers_matching(name, ci) : \A j \in headers_matching(name, ci) : i <= j

\* The type the schema gives column i.
type_of_column(i) == IF i < Len(schema) THEN schema[i + 1].type ELSE "Text"

\* Filter f holds on row r.
filter_holds(f, r, ci) ==
  row_matches(row(r), f, header_index(f.column, ci), type_of_column(header_index(f.column, ci)), ci)

\* Row r is selected by the filters of the call.
selected(r) ==
  IF q_call.or_logic
  THEN \E k \in 1..Len(q_call.filters) : filter_holds(q_call.filters[k], r, q_call.case_insensitive)
  ELSE \A k \in 1..Len(q_call.filters) : filter_holds(q_call.filters[k], r, q_call.case_insensitive)

\* q is strictly increasing.
ascending(q) == \A i \in 1..(Len(q) - 1) : q[i] < q[i + 1]

\* C14: apply_filters returns the ascending list of exactly the rows
\* r < row_count() on which every filter holds (AND) or some filter holds (OR);
\* with no filter, AND returns every row and OR returns none.
C14_ApplyFiltersSelects ==
  (q_call.op = "apply_filters" /\ q_res.kind = "indices") =>
    /\ ascending(q_res.indices)
    /\ {q_res.indices[i] : i \in 1..Len(q_res.indices)} = {r \in 0..(parsed_rows_ - 1) : selected(r)}
    /\ q_call.filters = <<>> =>
         Len(q_res.indices) = (IF q_call.or_logic THEN 0 ELSE parsed_rows_)

\* C14 witness: under OR a row on which one of two filters holds and the
\* other does not is returned, and a row on which neither holds is not.
C14_Witness ==
  /\ q_call.op = "apply_filters"
  /\ q_res.kind = "indices"
  /\ q_call.or_logic
  /\ Len(q_call.filters) = 2
  /\ parsed_rows_ = 2
  /\ \E r \in 0..1 :
       /\ q_res.indices = <<r>>
       /\ filter_holds(q_call.filters[1], r, q_call.case_insensitive)
            # filter_holds(q_call.filters[2], r, q_call.case_insensitive)

\* ---- notions the claims about unknown columns are stated with

\* The filters of the call whose column matches no header, in call order.
unmatched_filters ==
  SelectSeq(q_call.filters, LAMBDA f : headers_matching(f.column, q_call.case_insensitive) = {})

\* The names a select expression asks for: its comma-separated tokens, cut
\* to what lies between their spaces, the blank ones left out.
names_asked(select_str) ==
  LET tokens == getline_tokens(select_str)
  IN SelectSeq([k \in 1..Len(tokens) |-> trim(tokens[k])], LAMBDA t : t # <<>>)

\* The names asked for that match no header, in the order asked.
unmatched_names(select_str) ==
  SelectSeq(names_asked(select_str), LAMBDA t : headers_matching(t, FALSE) = {})

\* The result is the error of an unknown column naming column and listing
\* the unquoted headers of the table.
unknown_column(res, column) ==
  /\ res.kind = "runtime_error"
  /\ res.what \in {"Column not found", "Sort column not found"}
  /\ res.column = column
  /\ res.available = header_names

\* C15: a column name that matches no unquoted header makes apply_filters,
\* sort_indices and resolve_columns fail with an error that names the column
\* and lists the real headers; apply_filters returns no row list then,
\* whatever or_logic and the other filters are, and sort_indices leaves the
\* index list as it was handed in.
C15_UnknownColumn ==
  /\ (q_call.op = "apply_filters" /\ unmatched_filters # <<>>) =>
       unknown_column(q_res, unmatched_filters[1].column)
  /\ (q_call.op = "sort_indices" /\ headers_matching(q_call.col_name, FALSE) = {}) =>
       /\ unknown_column(q_res, q_call.col_name)
       /\ indices = q_call.indices
  /\ (q_call.op = "resolve_columns" /\ unmatched_names(q_call.select_str) # <<>>) =>
       unknown_column(q_res, unmatched_names(q_call.select_str)[1])

\* C15 witness: under OR, a filter that holds on a row stands beside a
\* filter on an unknown column, and the call fails listing both headers.
C15_Witness ==
  /\ q_call.op = "apply_filters"
  /\ q_call.or_logic
  /\ Len(q_call.filters) = 2
  /\ Len(unmatched_filters) = 1
  /\ headers_matching(q_call.filters[1].column, q_call.case_insensitive) # {}
  /\ \E r \in 0..(parsed_rows_ - 1) :
       filter_holds(q_call.filters[1], r, q_call.case_insensitive)
  /\ q_res.kind = "runtime_error"
  /\ q_res.available = << <<"K">>, <<"v">> >>

\* ---- notions the claim about numeric comparison is stated with

\* The filter is one that a numeric column is compared by number under.
ordering_op(op) == op \in {"Eq", "Neq", "Gt", "Lt", "Gte", "Lte"}

\* s is a number once '$' and ',' are taken out of it.
parses_as_number(s) == number_shape(cleaned(s))

\* Filter f holds on the cell as the claim has it: by number when the cell
\* and the literal are numbers, as strings otherwise.
holds_as_stated(cell, f, ci) ==
  IF parses_as_number(cell) /\ parses_as_number(f.value)
  THEN compare_numeric(parse_numeric(cell), f.op, parse_numeric(f.value))
  ELSE compare_strings(cell, f.op, f.value, ci)

\* The call is apply_filters with one ordering filter on a numeric column.
one_numeric_filter ==
  /\ q_call.op = "apply_filters"
  /\ Len(q_call.filters) = 1
  /\ headers_matching(q_call.filters[1].column, q_call.case_insensitive) # {}
  /\ is_numeric_type(type_of_column(header_index(q_call.filters[1].column, q_call.case_insensitive)))
  /\ ordering_op(q_call.filters[1].op)

\* C16: for a column typed Int64, Float64 or Currency and an operator among
\* ==, !=, >, <, >=, <=, apply_filters does not raise, compares a cell with
\* the literal by number when both are numbers after '$' and ',' are
\* stripped, and compares them as strings when either is not.
C16_NumericElseString ==
  one_numeric_filter =>
    /\ q_res.kind = "indices"
    /\ \A r \in 0..(parsed_rows_ - 1) :
         (\E i \in 1..Len(q_res.indices) : q_res.indices[i] = r)
           <=> holds_as_stated(sort_key(r, header_index(q_call.filters[1].column,
                                                        q_call.case_insensitive)),
                               q_call.filters[1], q_call.case_insensitive)

\* ------------------------------------------------------- sort_indices, called

MaxSortRows == 4   \* most data rows of a table that is sorted

\* The raw cells of column v of a sorted table.
SortCells == { <<"1">>, <<"+", "2">>, <<"-">> }

\* A file with the header K,v and one line x,<cell> per cell.
InitSort ==
  /\ \E cells \in BoundedSeq(SortCells, MaxSortRows) :
       Constructed(<<"K", ",", "v", NL>> \o csv_of(cells))
  /\ sample_size = 0
  /\ schema = <<>>
  /\ infer_pc = "start"
  /\ FieldIdle
  /\ DelimIdle
  /\ QueryIdle
  /\ LifeIdle
  /\ RestIdle

NextSort ==
  \/ ParseTable
  \/ InferForQuery
  \/ SortAll

SpecSort == InitSort /\ [][NextSort]_vars

\* ---- notions the claims about sort_indices are stated with

\* The call is a sort_indices that returned, on a column of numeric type or
\* on one that is not.
sorted_call == q_call.op = "sort_indices" /\ q_res.kind = "void"
sort_column == header_index(q_call.col_name, FALSE)
sorted_numeric == sorted_call /\ is_numeric_type(type_of_column(sort_column))
sorted_textual == sorted_call /\ ~is_numeric_type(type_of_column(sort_column))

\* The place of row index a in the list q.
place(q, a) == CHOOSE i \in 1..Len(q) : q[i] = a

\* q is a rearrangement of p.
permutation_of(q, p) ==
  /\ Len(q) = Len(p)
  /\ \A a \in {p[i] : i \in 1..Len(p)} :
       Cardinality({i \in 1..Len(q) : q[i] = a}) = Cardinality({i \in 1..Len(p) : p[i] = a})

\* C17: sort_indices is stable: two indices whose rows have the same cell in
\* the chosen column come out in the relative order they went in, ascending
\* and descending alike.
C17_Stable ==
  sorted_call =>
    \A i, j \in 1..Len(q_call.indices) :
      (i < j /\ sort_key(q_call.indices[i], sort_column) = sort_key(q_call.indices[j], sort_column))
        => place(indices, q_call.indices[i]) < place(indices, q_call.indices[j])

\* C18: after sort_indices the list is a rearrangement of the input; on a
\* column of numeric type the cells that are numbers stand in non-decreasing
\* order of their value (non-increasing when descending), on any other column
\* the cells stand in lexicographic order of their unquoted text.
C18_Ordered ==
  /\ sorted_call => permutation_of(indices, q_call.indices)
  /\ sorted_numeric =>
       \A i, j \in 1..Len(indices) :
         LET first == sort_key(indices[i], sort_column)
             second == sort_key(indices[j], sort_column)
         IN (i < j /\ parses_as_number(first) /\ parses_as_number(second)) =>
              IF q_call.descending
              THEN ~double_lt(parse_numeric(first), parse_numeric(second))
              ELSE ~double_lt(parse_numeric(second), parse_numeric(first))
  /\ sorted_textual =>
       \A i, j \in 1..Len(indices) :
         LET first == sort_key(indices[i], sort_column)
             second == sort_key(indices[j], sort_column)
         IN i < j => IF q_call.descending THEN ~string_lt(first, second)
                                          ELSE ~string_lt(second, first)

\* ---- notions the claim about resolve_columns is stated with

\* The call is a resolve_columns every name of which matches a header.
resolving_call ==
  /\ q_call.op = "resolve_columns"
  /\ unmatched_names(q_call.select_str) = <<>>

\* C19: resolve_columns returns, for the comma-separated and space-trimmed
\* names of the select expression in the order the caller gave them, the
\* index of the first header whose unquoted text is the name; it fails with
\* "No valid columns in --select" when there is no name to return an index for.
C19_CallerOrder ==
  resolving_call =>
    LET names == names_asked(q_call.select_str)
    IN IF names = <<>>
       THEN /\ q_res.kind = "runtime_error"
            /\ q_res.what = "No valid columns in --select"
       ELSE /\ q_res.kind = "indices"
            /\ q_res.indices = [k \in 1..Len(names) |-> header_index(names[k], FALSE)]

\* C19 witness: the caller asks for v before K and gets 1 before 0.
C19_Witness ==
  /\ resolving_call
  /\ names_asked(q_call.select_str) = << <<"v">>, <<"K">> >>
  /\ header_names = << <<"K">>, <<"v">> >>
  /\ q_res.kind = "indices"
  /\ q_res.indices = <<1, 0>>

\* ------------------------------------------------------ the life of a reader

MaxReaders == 3    \* most readers constructed one after another
MaxFileSize == 2   \* largest st_size fstat reports
MaxStdin == 2      \* most bytes read from stdin

\* The file_name arguments: stdin and a path.
FileNames == {"-", "data.csv"}

\* A system call that succeeded, as sys_calls records it.
sys_open(fd) == [call |-> "open", fd |-> fd, addr |-> NULLPTR]
sys_close(fd) == [call |-> "close", fd |-> fd, addr |-> NULLPTR]
sys_mmap(fd, a) == [call |-> "mmap", fd |-> fd, addr |-> a]
sys_munmap(a) == [call |-> "munmap", fd |-> -1, addr |-> a]

\* The number of calls of log that are the call name on descriptor fd.
calls_on(log, name, fd) ==
  Cardinality({i \in 1..Len(log) : log[i].call = name /\ log[i].fd = fd})

\* The descriptors the process holds open after the calls of log.
open_fds(log) ==
  {fd \in 3..(3 + Len(log)) : calls_on(log, "open", fd) > calls_on(log, "close", fd)}

\* What open returns: the lowest descriptor above stderr that is not open.
lowest_free(log) ==
  CHOOSE fd \in 3..(3 + Len(log)) :
    fd \notin open_fds(log) /\ \A g \in 3..(fd - 1) : g \in open_fds(log)

\* The constructor is entered: the members hold their default initializers.
Construct(file_name) ==
  /\ life_pc = "none"
  /\ readers < MaxReaders
  /\ readers' = readers + 1
  /\ csv_fd' = -1
  /\ file_size_' = 0
  /\ addr' = NULLPTR
  /\ stdin_buf_' = 0
  /\ life_pc' = IF file_name = "-" THEN "read_stdin" ELSE "open"
  /\ UNCHANGED <<sys_calls, readerVars, fieldVars, delimVars, inferVars, queryVars, restVars>>

\* open(file_name, O_RDONLY) succeeds or fails.
Open(ok) ==
  /\ life_pc = "open"
  /\ IF ok
     THEN /\ csv_fd' = lowest_free(sys_calls)
          /\ sys_calls' = Append(sys_calls, sys_open(lowest_free(sys_calls)))
          /\ life_pc' = "fstat"
     ELSE /\ csv_fd' = -1
          /\ sys_calls' = sys_calls
          /\ life_pc' = "thrown"
  /\ UNCHANGED <<file_size_, addr, stdin_buf_, readers,
                 readerVars, fieldVars, delimVars, inferVars, queryVars, restVars>>

\* fstat fails (st_size = -1 stands for that) or reports the size.
Fstat(st_size) ==
  /\ life_pc = "fstat"
  /\ IF st_size < 0
     THEN /\ sys_calls' = Append(sys_calls, sys_close(csv_fd))
          /\ file_size_' = file_size_
          /\ life_pc' = "thrown"
     ELSE /\ sys_calls' = sys_calls
          /\ file_size_' = st_size
          /\ life_pc' = IF st_size > 0 THEN "mmap" ELSE "constructed"
  /\ UNCHANGED <<csv_fd, addr, stdin_buf_, readers,
                 readerVars, fieldVars, delimVars, inferVars, queryVars, restVars>>

\* handle_mmap: mmap succeeds or returns MAP_FAILED.
HandleMmap(ok) ==
  /\ life_pc = "mmap"
  /\ IF ok
     THEN /\ addr' = MAPPING
          /\ sys_calls' = Append(sys_calls, sys_mmap(csv_fd, MAPPING))
          /\ life_pc' = "constructed"
     ELSE /\ addr' = MAP_FAILED
          /\ sys_calls' = Append(sys_calls, sys_close(csv_fd))
          /\ life_pc' = "thrown"
  /\ UNCHANGED <<csv_fd, file_size_, stdin_buf_, readers,
                 readerVars, fieldVars, delimVars, inferVars, queryVars, restVars>>

\* read_stdin: one read of the loop returns n; n <= 0 ends the loop.
ReadStdin(n) ==
  /\ life_pc = "read_stdin"
  /\ stdin_buf_ + n <= MaxStdin
  /\ IF n > 0
     THEN /\ stdin_buf_' = stdin_buf_ + n
          /\ UNCHANGED <<file_size_, addr, life_pc>>
     ELSE /\ stdin_buf_' = stdin_buf_
          /\ IF stdin_buf_ = 0
             THEN /\ life_pc' = "thrown"
                  /\ UNCHANGED <<file_size_, addr>>
             ELSE /\ file_size_' = stdin_buf_
                  /\ addr' = STDIN_DATA
                  /\ life_pc' = "constructed"
  /\ UNCHANGED <<csv_fd, sys_calls, readers,
                 readerVars, fieldVars, delimVars, inferVars, queryVars, restVars>>

\* Mutant of dtor: addr is not reset for a reader of stdin.
dtor_addr_kept(stdin_buf, a, fd) ==
  [addr |-> a,
   calls |-> (IF a # NULLPTR /\ a # MAP_FAILED THEN <<sys_munmap(a)>> ELSE <<>>)
             \o (IF fd >= 0 THEN <<sys_close(fd)>> ELSE <<>>)]

\* ~CsvReader: what addr is left as and the calls made.
dtor(stdin_buf, a, fd) ==
  LET reset == IF stdin_buf # 0 THEN NULLPTR ELSE a
  IN [addr |-> reset,
      calls |-> (IF reset # NULLPTR /\ reset # MAP_FAILED THEN <<sys_munmap(reset)>> ELSE <<>>)
                \o (IF fd >= 0 THEN <<sys_close(fd)>> ELSE <<>>)]

\* A constructed reader is destroyed.
Destroy ==
  /\ life_pc = "constructed"
  /\ addr' = dtor(stdin_buf_, addr, csv_fd).addr
  /\ sys_calls' = sys_calls \o dtor(stdin_buf_, addr, csv_fd).calls
  /\ life_pc' = "none"
  /\ UNCHANGED <<csv_fd, file_size_, stdin_buf_, readers,
                 readerVars, fieldVars, delimVars, inferVars, queryVars, restVars>>

\* The exception leaves the constructor: no reader was made, and the
\* destructor does not run.
Unwind ==
  /\ life_pc = "thrown"
  /\ life_pc' = "none"
  /\ UNCHANGED <<csv_fd, file_size_, addr, stdin_buf_, sys_calls, readers,
                 readerVars, fieldVars, delimVars, inferVars, queryVars, restVars>>

InitLife ==
  /\ LifeIdle
  /\ RestIdle
  /\ ReaderIdle
  /\ FieldIdle
  /\ DelimIdle
  /\ InferIdle
  /\ QueryIdle

NextLife ==
  \/ \E file_name \in FileNames : Construct(file_name)
  \/ \E ok \in BOOLEAN : Open(ok)
  \/ \E st_size \in -1..MaxFileSize : Fstat(st_size)
  \/ \E ok \in BOOLEAN : HandleMmap(ok)
  \/ \E n \in -1..MaxStdin : ReadStdin(n)
  \/ Destroy
  \/ Unwind

SpecLife == InitLife /\ [][NextLife]_vars

\* ---- notions the claim about the life of a reader is stated with

\* The first k calls made.
first_calls(k) == SubSeq(sys_calls, 1, k)

\* The number of calls of log that are the call name.
calls_of(log, name) == Cardinality({i \in 1..Len(log) : log[i].call = name})

\* The descriptors ever opened.
fds_opened == {sys_calls[i].fd : i \in {j \in 1..Len(sys_calls) : sys_calls[j].call = "open"}}

\* No reader is alive or under construction.
no_reader == life_pc \in {"none", "thrown"}

\* C20: on every path of construction and destruction, a descriptor is closed
\* only while it is open and a mapping is unmapped only while it is mapped
\* (never twice), nothing but a mapping is ever passed to munmap (not the
\* stdin buffer), and once the reader is gone, or its constructor has
\* thrown, every descriptor opened is closed and every mapping unmapped.
C20_ReleasedOnce ==
  /\ \A k \in 0..Len(sys_calls) :
       /\ \A i \in 1..k : sys_calls[i].call = "close" => sys_calls[i].fd \in fds_opened
       /\ \A fd \in fds_opened :
            calls_on(first_calls(k), "close", fd) <= calls_on(first_calls(k), "open", fd)
       /\ calls_of(first_calls(k), "munmap") <= calls_of(first_calls(k), "mmap")
  /\ \A i \in 1..Len(sys_calls) : sys_calls[i].call = "munmap" => sys_calls[i].addr = MAPPING
  /\ no_reader =>
       /\ \A fd \in fds_opened :
            calls_on(sys_calls, "close", fd) = calls_on(sys_calls, "open", fd)
       /\ calls_of(sys_calls, "munmap") = calls_of(sys_calls, "mmap")

\* C20 witness: a reader of a mapped file and then a reader of stdin have
\* been destroyed; one open, one mmap, one munmap and one close were made.
C20_Witness ==
  /\ life_pc = "none"
  /\ readers = 2
  /\ stdin_buf_ > 0
  /\ addr = NULLPTR
  /\ sys_calls = <<sys_open(3), sys_mmap(3, MAPPING), sys_munmap(MAPPING), sys_close(3)>>

\* ------------------------------------------------- rebuilding a Table

MaxBuildLen == 4   \* longest backing store a Table is rebuilt over

\* The same two builds, with the members they found kept as history.
Reparse(delimiter) ==
  \E r \in {parse_on(members, buf, delimiter)} :
     /\ Built(r, "parse", delimiter, 0)
     /\ prior' = members
     /\ UNCHANGED <<lineVars, pagerVars>>

ReparseHead(delimiter, max_rows) ==
  \E r \in {parse_head_on(members, buf, delimiter, max_rows)} :
     /\ Built(r, "parse_head", delimiter, max_rows)
     /\ prior' = members
     /\ UNCHANGED <<lineVars, pagerVars>>

InitRebuild ==
  /\ \E b \in BoundedSeq(Alphabet, MaxBuildLen) : Constructed(b)
  /\ FieldIdle
  /\ DelimIdle
  /\ QueryIdle
  /\ LifeIdle
  /\ RestIdle
  /\ InferIdle

NextRebuild ==
  \/ \E d \in Delims : Reparse(d)
  \/ \E d \in Delims, n \in 0..MaxRows : ReparseHead(d, n)

SpecRebuild == InitRebuild /\ [][NextRebuild]_vars

\* C21: a build first clears all prior state.  After any sequence of parse
\* and parse_head calls the headers, the fields, column_count(), row_count()
\* and total_rows() are exactly what the last call alone leaves in a reader
\* just constructed over the same bytes; and a build whose header yields no
\* column leaves the Table empty with all counts zero.
C21_BuildClearsFirst ==
  /\ last_call.op = "parse" => members = parse(buf, last_call.delimiter)
  /\ last_call.op = "parse_head" =>
       members = parse_head(buf, last_call.delimiter, last_call.max_rows)
  /\ (last_call.op # "none"
       /\ parse_header(buf, Len(buf), last_call.delimiter).ncols = 0) =>
       /\ headers_ = <<>>
       /\ fields_ = <<>>
       /\ ncols_ = 0
       /\ parsed_rows_ = 0
       /\ total_rows_ = 0

\* C21 witness: a build that found rows stored by an earlier build left
\* fewer fields than it found.
C21_Witness ==
  /\ last_call.op # "none"
  /\ prior # NoResult
  /\ fields_ # <<>>
  /\ Len(prior.fields) > Len(fields_)

\* ------------------------------------------------- the line functions

MaxLineLen == 4    \* longest buffer handed to the line functions

\* The delimiters, the quote and the newline; each delimiter is the plain
\* data byte of a call made with the other.
LineAlphabet == {",", ";", QUOTE, NL}

InitLine ==
  /\ \E b \in BoundedSeq(LineAlphabet, MaxLineLen) : Constructed(b)
  /\ FieldIdle
  /\ DelimIdle
  /\ QueryIdle
  /\ LifeIdle
  /\ RestIdle
  /\ InferIdle

MaxCols == 3       \* largest ncols handed to append_row_fields

\* Each function is applied once to its arguments.
FindLineEnd(start) ==
  /\ line_call.op = "none"
  /\ line_call' = [op |-> "find_line_end", start |-> start]
  /\ line_res' = find_line_end(buf, Len(buf), start)
  /\ UNCHANGED <<readerVars, fieldVars, delimVars, inferVars, queryVars, lifeVars, prior, pagerVars>>

ParseLineFields(start, end, delim) ==
  /\ line_call.op = "none"
  /\ line_call' = [op |-> "parse_line_fields", start |-> start, end |-> end, delim |-> delim]
  /\ line_res' = parse_line_fields(buf, start, end, delim)
  /\ UNCHANGED <<readerVars, fieldVars, delimVars, inferVars, queryVars, lifeVars, prior, pagerVars>>

\* The fields append_row_fields appends for the line [start, end) in a
\* reader of ncols columns.
AppendRowFields(start, end, delim, ncols) ==
  /\ line_call.op = "none"
  /\ line_call' = [op |-> "append_row_fields", start |-> start, end |-> end,
                   delim |-> delim, ncols |-> ncols]
  /\ line_res' = append_row_fields(buf, start, end, delim, ncols)
  /\ UNCHANGED <<readerVars, fieldVars, delimVars, inferVars, queryVars, lifeVars, prior, pagerVars>>

\* The detector's field count of the whole buffer taken as one sample line.
CountFields(delim) ==
  /\ line_call.op = "none"
  /\ Len(buf) > 0
  /\ line_call' = [op |-> "count_fields", delim |-> delim]
  /\ line_res' = count_fields(buf, Len(buf), delim)
  /\ UNCHANGED <<readerVars, fieldVars, delimVars, inferVars, queryVars, lifeVars, prior, pagerVars>>

NextLine ==
  \/ \E start \in 0..Len(buf) : FindLineEnd(start)
  \/ \E delim \in Delims : CountFields(delim)
  \/ \E start \in 0..Len(buf), end \in 0..Len(buf), delim \in Delims :
        start <= end /\ ParseLineFields(start, end, delim)
  \/ \E start \in 0..Len(buf), end \in 0..Len(buf), delim \in Delims, ncols \in 1..MaxCols :
        start <= end /\ AppendRowFields(start, end, delim, ncols)

SpecLine == InitLine /\ [][NextLine]_vars

\* ---- notions the claims about the line functions are stated with

\* The inside-quotes flag at offset i of a scan begun at start: false at
\* start, toggled on every quote byte.
inside_quotes(base, start, i) ==
  Cardinality({k \in start..(i - 1) : At(base, k) = QUOTE}) % 2 = 1

\* The newlines at or after start at which the flag is false.
row_ends(base, start) ==
  {i \in start..(Len(base) - 1) : At(base, i) = NL /\ ~inside_quotes(base, start, i)}

\* The reference scan: the first of them, or the buffer length.
reference_line_end(base, start) ==
  IF row_ends(base, start) = {} THEN Len(base)
  ELSE CHOOSE i \in row_ends(base, start) : \A j \in row_ends(base, start) : i <= j

\* C22: for every buffer and start offset find_line_end returns the offset
\* of the first newline at or after start at which the inside-quotes flag is
\* false, or the buffer length when there is none; the quote-aware scan alone
\* returns the same, and the offset returned is never a newline inside quotes.
C22_FindLineEnd ==
  line_call.op = "find_line_end" =>
    /\ line_res = reference_line_end(buf, line_call.start)
    /\ quote_aware_scan(buf, Len(buf), line_call.start, FALSE)
         = reference_line_end(buf, line_call.start)
    /\ line_res < Len(buf) =>
         (At(buf, line_res) = NL /\ ~inside_quotes(buf, line_call.start, line_res))

\* C22 witness: the slow path stepped over a newline inside quotes and
\* stopped at a later one.
C22_Witness ==
  /\ line_call.op = "find_line_end"
  /\ line_res < Len(buf)
  /\ \E i \in line_call.start..(line_res - 1) : At(buf, i) = NL

\* The quotes of the line [.., end) that stand in one unbroken run from
\* offset from up to and including offset q.
quote_run(base, from, q) ==
  {k \in from..q : \A j \in k..q : At(base, j) = QUOTE}

\* q closes the quoted field opened at off: it is a quote, no quote follows
\* it inside the line, and the quotes before it back to the last other byte
\* pair up.
closes(base, off, q, end) ==
  /\ At(base, q) = QUOTE
  /\ ~(q + 1 < end /\ At(base, q + 1) = QUOTE)
  /\ Cardinality(quote_run(base, off + 1, q)) % 2 = 1

\* Where the field at off ends (one past its last byte): behind its closing
\* quote for a field that begins with a quote, at the next delimiter for
\* any other; at the end of the line when there is no such quote or delimiter.
field_end(base, off, end, delim) ==
  IF At(base, off) = QUOTE
  THEN IF \E q \in (off + 1)..(end - 1) : closes(base, off, q, end)
       THEN 1 + CHOOSE q \in (off + 1)..(end - 1) :
                  /\ closes(base, off, q, end)
                  /\ \A p \in (off + 1)..(q - 1) : ~closes(base, off, p, end)
       ELSE end
  ELSE IF \E i \in off..(end - 1) : At(base, i) = delim
       THEN CHOOSE i \in off..(end - 1) :
              /\ At(base, i) = delim
              /\ \A j \in off..(i - 1) : At(base, j) # delim
       ELSE end

\* The fields parse_line_fields scanned, without the empty field it appends
\* for a trailing delimiter.
scanned_fields ==
  {k \in 1..Len(line_res) : line_res[k].off < line_call.end}

\* C23: within a line a field that begins with a quote extends to the first
\* quote that closes it, doubled quotes being consumed as pairs, whatever
\* delimiters it holds; a field that does not extends to the next delimiter;
\* and the view stored is that raw span, quotes included.
C23_QuotedFieldSpan ==
  line_call.op = "parse_line_fields" =>
    \A k \in scanned_fields :
      /\ line_call.start <= line_res[k].off
      /\ line_res[k].off + line_res[k].len
           = field_end(buf, line_res[k].off, line_call.end, line_call.delim)
      /\ Text(buf, line_res[k])
           = SubSeq(buf, line_res[k].off + 1,
                    field_end(buf, line_res[k].off, line_call.end, line_call.delim))

\* C23 witness: a closed quoted field holding the delimiter or a doubled
\* quote was stored whole.
C23_Witness ==
  /\ line_call.op = "parse_line_fields"
  /\ \E k \in scanned_fields :
       /\ At(buf, line_res[k].off) = QUOTE
       /\ line_res[k].len >= 3
       /\ At(buf, line_res[k].off + line_res[k].len - 1) = QUOTE
       /\ At(buf, line_res[k].off + 1) \in {line_call.delim, QUOTE}
       /\ line_res[k].off + line_res[k].len < line_call.end

\* What parse_line_fields returns for the line append_row_fields was given.
raw_fields ==
  parse_line_fields(buf, line_call.start, line_call.end, line_call.delim)

\* C27: the two field splitters agree.  For every line, delimiter and
\* ncols >= 1 the fields append_row_fields stores are the fields
\* parse_line_fields returns for the line (its empty field for a trailing
\* delimiter included), cut after the first ncols and followed by empty
\* fields up to ncols; the fields scanned from the line are the same views.
C27_SplittersAgree ==
  line_call.op = "append_row_fields" =>
    \A raw \in {raw_fields} :
      /\ Len(line_res) = line_call.ncols
      /\ \A k \in 1..line_call.ncols :
           /\ Text(buf, line_res[k]) = IF k <= Len(raw) THEN Text(buf, raw[k]) ELSE <<>>
           /\ (k <= Len(raw) /\ raw[k].off < line_call.end) => line_res[k] = raw[k]

\* C27 witness: the last field of the line is an unterminated quote that
\* ends in the delimiter, and the row has room for the empty field behind it.
C27_Witness ==
  /\ line_call.op = "append_row_fields"
  /\ Len(raw_fields) >= 2
  /\ line_call.ncols >= Len(raw_fields)
  /\ At(buf, line_call.end - 1) = line_call.delim
  /\ \E k \in 1..Len(line_res) :
       /\ line_res[k].len >= 2
       /\ At(buf, line_res[k].off) = QUOTE
       /\ line_res[k].off + line_res[k].len = line_call.end

\* The buffer is one sample line: no newline of it stands outside quotes.
one_sample_line == row_ends(buf, 0) = {}

\* C28: for every non-empty sample line and every candidate delimiter the
\* field count the detector computes equals the number of fields
\* parse_line_fields produces for that line with that delimiter.
C28_DetectorCountsParserFields ==
  (line_call.op = "count_fields" /\ one_sample_line) =>
    line_res = Len(parse_line_fields(buf, 0, Len(buf), line_call.delim))

\* ---- blank lines

\* The lines of the buffer from offset pos on, cut at the newlines outside
\* quotes, each the [start, end) left when a trailing CR is removed.
RECURSIVE text_lines(_, _)
text_lines(base, pos) ==
  IF pos >= Len(base) THEN <<>>
  ELSE LET stop == reference_line_end(base, pos)
           end == IF stop > pos /\ At(base, stop - 1) = CR THEN stop - 1 ELSE stop
       IN <<[start |-> pos, end |-> end]>>
          \o text_lines(base, IF stop < Len(base) THEN stop + 1 ELSE Len(base))

is_blank(line) == line.end = line.start
is_non_blank(line) == line.end > line.start

\* The lines after the header line, and the non-blank ones among them.
lines_after_header == text_lines(buf, reference_line_end(buf, 0) + 1)
non_blank_lines == SelectSeq(lines_after_header, is_non_blank)

\* The row count the blank-line rule gives for the last call.
rows_expected ==
  IF last_call.op = "parse" THEN Len(non_blank_lines)
  ELSE Min(last_call.max_rows, Len(non_blank_lines))

\* C24 as stated: after every build row_count() is the number of non-blank
\* data lines after the header (for parse_head, up to max_rows of them).
C24_AsStated ==
  last_call.op # "none" => parsed_rows_ = rows_expected

\* C24: when the header yields at least one column, parse and parse_head skip
\* every zero-length line (after removing a trailing CR) without counting it:
\* row_count() is the number of non-blank data lines after the header (for
\* parse_head, up to max_rows of them), and row i is the row of the i-th
\* non-blank line, so no blank line produces a row or counts toward max_rows.
C24_BlankLinesSkipped ==
  (last_call.op # "none" /\ ncols_ > 0) =>
    /\ parsed_rows_ = rows_expected
    /\ \A i \in 0..(parsed_rows_ - 1) : row(i)[1].off = non_blank_lines[i + 1].start

\* C24 witness: a head parse filled max_rows with a row that stands behind
\* a blank line.
C24_Witness ==
  /\ last_call.op = "parse_head"
  /\ ncols_ > 0
  /\ parsed_rows_ = last_call.max_rows
  /\ parsed_rows_ >= 1
  /\ \E k \in 1..Len(lines_after_header) :
       /\ is_blank(lines_after_header[k])
       /\ lines_after_header[k].start < row(parsed_rows_ - 1)[1].off

\* ------------------------------------------- count_newlines, vectorized

MaxCountLen == 272  \* longest buffer handed to count_newlines (17 lanes of 16 bytes)
MaxPeriod == 3      \* sparsest newline density: one newline every MaxPeriod bytes

Lanes == 0..15

\* vandq_u8(vceqq_u8(chunk, nl), ones) of the chunk loaded at data + i.
neon_hits(data, i) == [l \in Lanes |-> IF At(data, i + l) = NL THEN 1 ELSE 0]

\* vaddq_u8: sixteen 8-bit additions.
vaddq_u8(a, b) == [l \in Lanes |-> (a[l] + b[l]) % 256]

RECURSIVE lane_sum(_, _)
lane_sum(a, l) == IF l > 15 THEN 0 ELSE a[l] + lane_sum(a, l + 1)

\* vaddvq_u8: the sum across the lanes, returned as a uint8_t.
vaddvq_u8(a) == lane_sum(a, 0) % 256

\* The for loop over one batch: the accumulator and the offset it leaves.
RECURSIVE neon_batch(_, _, _, _, _)
neon_batch(data, i, j, batch, acc) ==
  IF j < batch
  THEN neon_batch(data, i + 16, j + 1, batch, vaddq_u8(acc, neon_hits(data, i)))
  ELSE [acc |-> acc, i |-> i]

\* The while loop over the batches: the count and the offset it leaves.
RECURSIVE neon_loop(_, _, _, _)
neon_loop(data, i, len, count) ==
  IF i + 16 <= len
  THEN LET b == neon_batch(data, i, 0, Min((len - i) \div 16, 255), [l \in Lanes |-> 0])
       IN neon_loop(data, b.i, len, count + vaddvq_u8(b.acc))
  ELSE [count |-> count, i |-> i]

\* count_newlines as built with __ARM_NEON: the batches, then the scalar
\* loop over the bytes left.
count_newlines_neon(data, len) ==
  LET v == neon_loop(data, 0, len, 0)
  IN v.count + count_newlines(data, v.i, len)

\* A buffer of n bytes with a newline at every p-th byte.
periodic(n, p) == [i \in 1..n |-> IF i % p = 0 THEN NL ELSE ","]

InitCount ==
  /\ \E n \in 0..MaxCountLen, p \in 1..MaxPeriod : Constructed(periodic(n, p))
  /\ FieldIdle
  /\ DelimIdle
  /\ QueryIdle
  /\ LifeIdle
  /\ RestIdle
  /\ InferIdle

\* count_newlines(data, len) of a build with the vectorized loop.
CountNewlines ==
  /\ line_call' = [op |-> "count_newlines"]
  /\ line_res' = count_newlines_neon(buf, Len(buf))
  /\ UNCHANGED <<readerVars, fieldVars, delimVars, inferVars, queryVars, lifeVars, prior, pagerVars>>

NextCount == CountNewlines

SpecCount == InitCount /\ [][NextCount]_vars

\* What the scalar loop returns: the number of newline bytes of the buffer.
newlines_in(b) == Cardinality({i \in 1..Len(b) : b[i] = NL})

\* C25: count_newlines returns the same value with the vectorized loop as
\* without it, the number of newline bytes, for every input length and
\* every newline density.
C25_VectorizedEqualsScalar ==
  line_call.op = "count_newlines" => line_res = newlines_in(buf)

\* -------------------------------------------------------------- the pager

MaxPagerRows == 3   \* most data rows in a table handed to run_pager
MaxQuery == 1       \* longest search query typed

\* Control bytes are written as their names.
ESC == "ESC"        \* 0x1B
ETX == "ETX"        \* 0x03, Ctrl+C
BS == "BS"          \* 0x08
DEL == "DEL"        \* 0x7F, KEY_BACKSPACE_K

KEY_NONE == "KEY_NONE"
KEY_UP == "KEY_UP"
KEY_DOWN == "KEY_DOWN"
KEY_LEFT == "KEY_LEFT"
KEY_RIGHT == "KEY_RIGHT"
KEY_PGUP == "KEY_PGUP"
KEY_PGDN == "KEY_PGDN"
KEY_HOME == "KEY_HOME"
KEY_END == "KEY_END"

\* The bytes of the model with a code from 32 to 126.
PrintableBytes ==
  {SPACE, "/", "[", "~", "A", "B", "C", "D", "F", "G", "H", "N", "O",
   "a", "b", "g", "h", "j", "k", "l", "n", "q", "x"} \cup Digits

\* std::numeric_limits<size_t>::max(), above every size of the model.
SIZE_MAX == 2147483647

\* ---- read_key: seq holds the bytes the reads after the ESC deliver; a read
\* ---- past its end is a read that did not return 1.

rk_csi_digit(seq) ==
  IF Len(seq) < 3 THEN ESC
  ELSE IF seq[3] = "~"
       THEN CASE seq[2] = "5" -> KEY_PGUP
              [] seq[2] = "6" -> KEY_PGDN
              [] seq[2] = "1" -> KEY_HOME
              [] seq[2] = "4" -> KEY_END
              [] OTHER -> ESC
       ELSE ESC

rk_csi(seq) ==
  IF Len(seq) < 2 THEN ESC
  ELSE IF seq[2] \in Digits THEN rk_csi_digit(seq)
  ELSE CASE seq[2] = "A" -> KEY_UP
         [] seq[2] = "B" -> KEY_DOWN
         [] seq[2] = "C" -> KEY_RIGHT
         [] seq[2] = "D" -> KEY_LEFT
         [] seq[2] = "H" -> KEY_HOME
         [] seq[2] = "F" -> KEY_END
         [] OTHER -> ESC

rk_ss3(seq) ==
  IF Len(seq) < 2 THEN ESC
  ELSE CASE seq[2] = "H" -> KEY_HOME
         [] seq[2] = "F" -> KEY_END
         [] OTHER -> ESC

rk_escape(seq) ==
  IF Len(seq) < 1 THEN ESC
  ELSE IF seq[1] = "[" THEN rk_csi(seq)
  ELSE IF seq[1] = "O" THEN rk_ss3(seq)
  ELSE ESC

\* The key read_key returns when the terminal delivers the bytes input.
read_key(input) ==
  IF input = <<>> THEN KEY_NONE
  ELSE IF input[1] = ESC THEN rk_escape(Tail(input))
  ELSE IF input[1] = ETX THEN "q"
  ELSE input[1]

\* ---- the pager state

\* PagerState with its default member initializers.
PagerState ==
  [scroll_row |-> 0, scroll_col |-> 0, term_rows |-> 24, term_cols |-> 80,
   data_rows |-> 0, searching |-> FALSE, search_query |-> <<>>,
   search_hits |-> <<>>, current_hit |-> SIZE_MAX, status_msg |-> <<>>]

viewport_rows(s) == IF s.term_rows > 6 THEN s.term_rows - 6 ELSE 1

RECURSIVE vc_loop(_, _, _, _, _)
vc_loop(widths, c, term_w, used, count) ==
  IF c < Len(widths)
  THEN IF used + (widths[c + 1] + 3) > term_w /\ count > 0
       THEN count
       ELSE vc_loop(widths, c + 1, term_w, used + (widths[c + 1] + 3), count + 1)
  ELSE count

visible_cols(widths, start_col, term_w) ==
  IF vc_loop(widths, start_col, term_w, 1, 0) = 0 THEN 1
  ELSE vc_loop(widths, start_col, term_w, 1, 0)

\* A pointer argument: null, or the vector it points to.
null_ptr == [null |-> TRUE, v |-> <<>>]
ptr_to(v) == [null |-> FALSE, v |-> v]

\* row_indices ? (*row_indices)[d] : d, and the same for columns.
actual_row(args, d) == IF args.row_indices.null THEN d ELSE args.row_indices.v[d + 1]
actual_col(args, c) == IF args.col_indices.null THEN c ELSE args.col_indices.v[c + 1]

\* The display column count of run_pager and render.
ncols_display(args) == IF args.col_indices.null THEN ncols_ ELSE Len(args.col_indices.v)

\* ---- do_search

\* The lower-casing loops of do_search.
pager_lower(s) == [k \in 1..Len(s) |-> to_lower(s[k])]

\* The test of column ci in the inner loop: visible, and the cell holds the query.
ds_cell_hit(args, d, ci, query_lower) ==
  /\ args.col_indices.null \/ \E k \in 1..Len(args.col_indices.v) : args.col_indices.v[k] = ci
  /\ find(pager_lower(unquote(Text(buf, row(actual_row(args, d))[ci + 1]))), query_lower) # NULL

\* The loop over the display rows from d on: the hits pushed.
RECURSIVE ds_hits(_, _, _, _)
ds_hits(args, d, data_rows, query_lower) ==
  IF d >= data_rows THEN <<>>
  ELSE (IF \E ci \in 0..(ncols_ - 1) : ds_cell_hit(args, d, ci, query_lower)
        THEN <<d>> ELSE <<>>)
       \o ds_hits(args, d + 1, data_rows, query_lower)

\* The first hit at or after the scroll position, 0 when there is none.
ds_first_hit(hits, scroll_row) ==
  IF \E i \in 0..(Len(hits) - 1) : hits[i + 1] >= scroll_row
  THEN CHOOSE i \in 0..(Len(hits) - 1) :
         /\ hits[i + 1] >= scroll_row
         /\ \A j \in 0..(i - 1) : hits[j + 1] < scroll_row
  ELSE 0

\* The status messages, as the parts they are made of.
match_msg(current_hit, hits) == <<"Match", current_hit + 1, "of", Len(hits)>>
no_match_msg(query) == <<"No matches for", query>>

\* do_search from the hits on.
ds_jump(s, hits) ==
  IF hits # <<>>
  THEN [s EXCEPT !.search_hits = hits,
                 !.current_hit = ds_first_hit(hits, s.scroll_row),
                 !.scroll_row = hits[ds_first_hit(hits, s.scroll_row) + 1],
                 !.status_msg = match_msg(ds_first_hit(hits, s.scroll_row), hits)]
  ELSE [s EXCEPT !.search_hits = <<>>, !.current_hit = SIZE_MAX,
                 !.status_msg = no_match_msg(s.search_query)]

do_search(s, args) ==
  IF s.search_query = <<>>
  THEN [s EXCEPT !.search_hits = <<>>, !.current_hit = SIZE_MAX]
  ELSE ds_jump(s, ds_hits(args, 0, s.data_rows, pager_lower(s.search_query)))

\* ---- run_pager

MaxViewport == 2    \* tallest viewport of the terminals explored
WidthSample == 1000 \* the rows the column widths are computed from
MaxWidth == 60      \* the cap on a column width

\* type_name(t).size()
type_name_size(t) ==
  CASE t = "Int64" -> 5
    [] t = "Float64" -> 7
    [] t = "Currency" -> 8
    [] OTHER -> 4

\* The width of display column c before the cap: the header, the type name
\* and the cells of the first rows.
RECURSIVE cw_rows(_, _, _, _, _)
cw_rows(args, r, sample, ac, w) ==
  IF r < sample
  THEN cw_rows(args, r + 1, sample, ac,
               IF ac < ncols_
               THEN Max(w, Len(unquote(Text(buf, row(actual_row(args, r))[ac + 1]))))
               ELSE w)
  ELSE w

cw_header(sch, ac) ==
  Max(Len(unquote(Text(buf, headers_[ac + 1]))),
      IF ac < Len(sch) THEN type_name_size(sch[ac + 1].type) ELSE 4)

\* The column widths run_pager computes before its loop.
initial_widths(args, sch, data_rows) ==
  [c \in 1..ncols_display(args) |->
     Min(cw_rows(args, 0, Min(data_rows, WidthSample), actual_col(args, c - 1),
                 cw_header(sch, actual_col(args, c - 1))),
         MaxWidth)]

\* get_term_size() when the terminal reports the window size w.
get_term_size(w) ==
  IF w.ok /\ w.ws_row > 0 THEN [rows |-> w.ws_row, cols |-> w.ws_col]
  ELSE [rows |-> 24, cols |-> 80]

\* Cap column widths to terminal.
cap_widths(widths, term_cols, ncols) ==
  IF ncols * 3 + 1 < term_cols /\ SumSeq(widths) > term_cols - (ncols * 3 + 1)
  THEN [c \in 1..Len(widths) |->
          Min(widths[c], Max(5, (term_cols - (ncols * 3 + 1)) \div ncols))]
  ELSE widths

\* Mutant of clamp_rows: the scroll position is left as it is.
clamp_rows_none(s, vp) == s

\* Clamp scroll: the row.
clamp_rows(s, vp) ==
  IF s.data_rows <= vp THEN [s EXCEPT !.scroll_row = 0]
  ELSE IF s.scroll_row > s.data_rows - vp THEN [s EXCEPT !.scroll_row = s.data_rows - vp]
  ELSE s

\* Clamp scroll: the column.
clamp_cols(s, ncols) ==
  IF s.scroll_col >= ncols
  THEN [s EXCEPT !.scroll_col = IF ncols > 0 THEN ncols - 1 ELSE 0]
  ELSE s

clamp(s, ncols) == clamp_cols(clamp_rows(s, viewport_rows(s)), ncols)

\* The rows and the columns render draws.
vis_end(s) == Min(s.scroll_row + viewport_rows(s), s.data_rows)
end_col(s, widths, ncols_total) ==
  Min(s.scroll_col + visible_cols(widths, s.scroll_col, s.term_cols), ncols_total)
rows_drawn(s) == s.scroll_row..(vis_end(s) - 1)
cols_drawn(s, widths, ncols_total) == s.scroll_col..(end_col(s, widths, ncols_total) - 1)

\* The search input handling: the state a key leaves in search-entry mode.
search_input(s, key, args) ==
  IF key = ESC \/ key = ETX
  THEN [s EXCEPT !.searching = FALSE, !.search_query = <<>>, !.status_msg = <<>>]
  ELSE IF key = CR \/ key = NL
  THEN do_search([s EXCEPT !.searching = FALSE], args)
  ELSE IF key = DEL \/ key = BS
  THEN IF s.search_query # <<>>
       THEN [s EXCEPT !.search_query = SubSeq(@, 1, Len(@) - 1)]
       ELSE s
  ELSE IF key \in PrintableBytes
  THEN [s EXCEPT !.search_query = Append(@, key)]
  ELSE s

\* The n and N cases: the jump to the hit with index hit.
jump_to(s, hit) ==
  [s EXCEPT !.current_hit = hit, !.scroll_row = s.search_hits[hit + 1],
            !.status_msg = match_msg(hit, s.search_hits)]

\* The switch on the key: the state it leaves (running is cleared by q and ESC).
key_switch(s, key, vp, ncols) ==
  CASE key \in {"k", KEY_UP} ->
         IF s.scroll_row > 0 THEN [s EXCEPT !.scroll_row = @ - 1] ELSE s
    [] key \in {"j", KEY_DOWN, CR, NL} ->
         IF s.scroll_row + vp < s.data_rows THEN [s EXCEPT !.scroll_row = @ + 1] ELSE s
    [] key \in {SPACE, KEY_PGDN} ->
         [s EXCEPT !.scroll_row = Min(s.scroll_row + vp,
                                      IF s.data_rows > vp THEN s.data_rows - vp ELSE 0)]
    [] key \in {"b", KEY_PGUP} ->
         [s EXCEPT !.scroll_row = IF s.scroll_row >= vp THEN s.scroll_row - vp ELSE 0]
    [] key \in {"g", KEY_HOME} -> [s EXCEPT !.scroll_row = 0]
    [] key \in {"G", KEY_END} ->
         [s EXCEPT !.scroll_row = IF s.data_rows > vp THEN s.data_rows - vp ELSE 0]
    [] key \in {"h", KEY_LEFT} ->
         IF s.scroll_col > 0 THEN [s EXCEPT !.scroll_col = @ - 1] ELSE s
    [] key \in {"l", KEY_RIGHT} ->
         IF s.scroll_col + 1 < ncols THEN [s EXCEPT !.scroll_col = @ + 1] ELSE s
    [] key = "/" -> [s EXCEPT !.searching = TRUE, !.search_query = <<>>]
    [] key = "n" ->
         IF s.search_hits # <<>>
         THEN jump_to(s, (s.current_hit + 1) % Len(s.search_hits))
         ELSE s
    [] key = "N" ->
         IF s.search_hits # <<>>
         THEN jump_to(s, IF s.current_hit = 0 THEN Len(s.search_hits) - 1
                         ELSE s.current_hit - 1)
         ELSE s
    [] OTHER -> s

\* One key outside search-entry mode: the status message is cleared first.
dispatch(s, key, ncols) ==
  key_switch([s EXCEPT !.status_msg = <<>>], key, viewport_rows(s), ncols)

\* ---- the pager, run

\* The raw cells of the table of n rows that is paged: n, q, n, ... down
\* the second column.
pager_cells(n) == [i \in 1..n |-> IF i % 2 = 1 THEN <<"n">> ELSE <<"q">>]

\* The window sizes the terminal reports: an ioctl that fails (24 rows are
\* assumed), a narrow terminal too short for the frame, and terminals with a
\* viewport of 2..MaxViewport rows.
WinSizes ==
  { [ok |-> FALSE, ws_row |-> 0, ws_col |-> 0],
    [ok |-> TRUE, ws_row |-> 3, ws_col |-> 12] }
  \cup { [ok |-> TRUE, ws_row |-> 6 + v, ws_col |-> 80] : v \in 2..MaxViewport }

\* The index lists handed to run_pager, as main builds them: all rows and
\* columns, or the rows but the first in reverse order and the second column.
RowIndexLists ==
  {null_ptr, ptr_to(SubSeq(reversed(iota(parsed_rows_)), 1, parsed_rows_ - 1))}
ColIndexLists == {null_ptr, ptr_to(<<1>>)}

\* What the terminal delivers to one read_key: nothing (the read fails), a
\* lone ESC, escape sequences, Ctrl+C, and single keys.
KeyInputs ==
  { <<>>, <<ESC>>, <<ESC, "[", "A">>, <<ESC, "[", "B">>,
    <<ESC, "[", "C">>, <<ESC, "[", "D">>, <<ESC, "[", "5", "~">>,
    <<ESC, "[", "6", "~">>, <<ESC, "O", "H">>, <<ESC, "O", "F">>,
    <<ETX>>, <<"q">>, <<"/">>, <<CR>>, <<"n">>, <<"N">>, <<DEL>> }

InitPager ==
  /\ \E n \in 0..MaxPagerRows :
       Constructed(<<"K", ",", "v", NL>> \o csv_of(pager_cells(n)))
  /\ sample_size = 0
  /\ schema = <<>>
  /\ infer_pc = "start"
  /\ FieldIdle
  /\ DelimIdle
  /\ QueryIdle
  /\ LifeIdle
  /\ RestIdle

\* The schema is inferred with the default sample size, as main does.
InferForPager == InferSchema(DefaultSampleSize)

\* The state after the resize block at the top of the loop.
resized(s, flag, w) ==
  IF flag = 1
  THEN [s EXCEPT !.term_rows = get_term_size(w).rows, !.term_cols = get_term_size(w).cols]
  ELSE s

\* The column widths after the resize block.
recapped(widths, flag, w, ncols) ==
  IF flag = 1 THEN cap_widths(widths, get_term_size(w).cols, ncols) ELSE widths

\* The top of the loop down to read_key: resize, clamp, render. The state is
\* the one render draws and the next key finds.
LoopTop(s, widths, args, w) ==
  /\ resize_flag' = 0
  /\ col_widths' = recapped(widths, resize_flag, w, ncols_display(args))
  /\ st' = clamp(resized(s, resize_flag, w), ncols_display(args))
  /\ pg_pc' = "read"

\* The return of run_pager: its locals are gone.
Exited ==
  /\ pg_pc' = "exited"
  /\ st' = NoResult
  /\ col_widths' = <<>>
  /\ pg_args' = NoResult
  /\ pg_last' = NoResult

\* Whether the turn of the loop before the render ran do_search or the n or
\* N case.
jumped(s, key) ==
  IF s.searching THEN key = CR \/ key = NL ELSE key = "n" \/ key = "N"

\* run_pager down to its first read_key; tty_ok is whether enable_raw_mode
\* succeeded, w the window size the terminal reports.
RunPager(row_indices, col_indices, w, tty_ok) ==
  /\ pg_pc = "idle"
  /\ infer_pc = "inferred"
  /\ winsize' = w
  /\ IF tty_ok
     THEN /\ pg_args' = [row_indices |-> row_indices, col_indices |-> col_indices]
          /\ pg_last' = [jumped |-> FALSE]
          /\ \E data_rows \in {IF row_indices.null THEN parsed_rows_ ELSE Len(row_indices.v)} :
               LoopTop([PagerState EXCEPT !.data_rows = data_rows],
                       initial_widths(pg_args', schema, data_rows), pg_args', w)
     ELSE Exited /\ UNCHANGED resize_flag
  /\ UNCHANGED <<readerVars, fieldVars, delimVars, inferVars, queryVars, lifeVars, prior, lineVars>>

\* SIGWINCH while read_key waits: the window has the size w now, and the
\* handler sets the flag. (A signal during the handling of a key leaves the
\* same state as one before it: only the top of the loop reads the size.)
Winch(w) ==
  /\ pg_pc = "read"
  /\ winsize' = w
  /\ resize_flag' = 1
  /\ UNCHANGED <<pg_pc, st, col_widths, pg_args, pg_last>>
  /\ UNCHANGED <<readerVars, fieldVars, delimVars, inferVars, queryVars, lifeVars, prior, lineVars>>

\* One turn of the loop from the return of read_key: the key is handled, and
\* unless it ends the loop the next turn resizes, clamps and renders.
Key(input) ==
  /\ pg_pc = "read"
  /\ ~(st.searching /\ read_key(input) \in PrintableBytes
       /\ Len(st.search_query) >= MaxQuery)
  /\ \E key \in {read_key(input)} :
       IF key = KEY_NONE
       THEN /\ LoopTop(st, col_widths, pg_args, winsize)
            /\ pg_last' = [jumped |-> jumped(st, key)]
            /\ UNCHANGED pg_args
       ELSE IF st.searching
       THEN /\ LoopTop(search_input(st, key, pg_args), col_widths, pg_args, winsize)
            /\ pg_last' = [jumped |-> jumped(st, key)]
            /\ UNCHANGED pg_args
       ELSE IF key = "q" \/ key = ESC
       THEN Exited /\ UNCHANGED resize_flag
       ELSE /\ LoopTop(dispatch(st, key, ncols_display(pg_args)), col_widths, pg_args, winsize)
            /\ pg_last' = [jumped |-> jumped(st, key)]
            /\ UNCHANGED pg_args
  /\ UNCHANGED winsize
  /\ UNCHANGED <<readerVars, fieldVars, delimVars, inferVars, queryVars, lifeVars, prior, lineVars>>

NextPager ==
  \/ ParseTable
  \/ InferForPager
  \/ \E row_indices \in RowIndexLists, col_indices \in ColIndexLists,
        w \in WinSizes, tty_ok \in BOOLEAN :
        RunPager(row_indices, col_indices, w, tty_ok)
  \/ \E w \in WinSizes : Winch(w)
  \/ \E input \in KeyInputs : Key(input)

SpecPager == InitPager /\ [][NextPager]_vars

\* ---- the pager keeps to the table

\* The row of the current hit.
hit_row(s) == s.search_hits[s.current_hit + 1]

\* C29: at every render scroll_row <= max(0, data_rows - viewport_rows) and
\* scroll_col < max(1, displayed columns), every row and column render draws
\* is a row and a column of the table, after a search or an n/N jump the row
\* of the current hit is among the rows drawn, and current_hit indexes
\* search_hits whenever there are hits.
C29_ScrollAndHitsInRange ==
  pg_pc = "read" =>
    /\ st.scroll_row <= Max(0, st.data_rows - viewport_rows(st))
    /\ st.scroll_col < Max(1, ncols_display(pg_args))
    /\ \A r \in rows_drawn(st) :
         r < st.data_rows /\ actual_row(pg_args, r) \in 0..(parsed_rows_ - 1)
    /\ \A c \in cols_drawn(st, col_widths, ncols_display(pg_args)) :
         c < ncols_display(pg_args) /\ actual_col(pg_args, c) \in 0..(ncols_ - 1)
    /\ (pg_last.jumped /\ st.search_hits # <<>>)
         => hit_row(st) \in rows_drawn(st)
    /\ st.search_hits # <<>> => st.current_hit < Len(st.search_hits)

\* A jump whose hit lies below the last scroll position the table allows:
\* the clamp has moved the viewport, and the hit is drawn under its top row.
C29_Witness ==
  /\ pg_pc = "read"
  /\ pg_last.jumped
  /\ st.search_hits # <<>>
  /\ st.scroll_row > 0
  /\ st.scroll_row < hit_row(st)
  /\ hit_row(st) \in rows_drawn(st)

\* ---- search-entry mode

\* The bytes of the keys the search input handling names.
EscapeInput == <<ESC>>
CtrlCInput == <<ETX>>
EnterInputs == { <<CR>>, <<NL>> }

\* C30: in search-entry mode Escape or Ctrl+C cancels the search (searching
\* false, query and status message cleared, scroll position and earlier hits
\* as they were); no key but Escape, Ctrl+C and Enter leaves the mode, and no
\* key ends the pager while in it. (Turns without a pending resize, so that
\* the scroll position is the key's doing.)
C30_SearchModeKeys ==
  [][\A input \in KeyInputs :
       (pg_pc = "read" /\ st.searching /\ resize_flag = 0 /\ Key(input)) =>
         /\ pg_pc' = "read"
         /\ input \in {EscapeInput, CtrlCInput} =>
              /\ ~st'.searching
              /\ st'.search_query = <<>>
              /\ st'.status_msg = <<>>
              /\ st'.scroll_row = st.scroll_row
              /\ st'.scroll_col = st.scroll_col
              /\ st'.search_hits = st.search_hits
              /\ st'.current_hit = st.current_hit
         /\ ~st'.searching => input \in {EscapeInput, CtrlCInput} \cup EnterInputs]_vars

====
